---------------------------- MODULE Spec2Model ----------------------------
(***************************************************************************)
(* A model of the eosio value types of src/eospyo/types.py: construction   *)
(* (validation), __bytes__ (encode) and from_bytes (decode) of every type. *)
(*                                                                         *)
(* Representation.                                                         *)
(*   bytes      a sequence of numbers in 0..255                            *)
(*   str        a sequence of code points (46 is ".", 65 is "A", ...)      *)
(*   int        a record [neg, mag]: Python's unbounded integers, the      *)
(*              magnitude as little-endian bits without leading zeros      *)
(*              (values reach 2^64, past the model checker's own numbers)  *)
(*   a result   a record [ok, value]: ok = FALSE stands for a raised       *)
(*              exception (pydantic.ValidationError, struct.error, ...)    *)
(***************************************************************************)
EXTENDS Integers, Sequences, FiniteSets, TLC

Min(a, b) == IF a <= b THEN a ELSE b
Max(a, b) == IF a >= b THEN a ELSE b

(***************************************************************************)
(* Python integers.                                                        *)
(***************************************************************************)
RECURSIVE Trim(_)
Trim(b) == IF b = <<>> \/ b[Len(b)] = 1 THEN b
           ELSE Trim(SubSeq(b, 1, Len(b) - 1))

RECURSIVE NatBits(_)
NatBits(n) == IF n = 0 THEN <<>> ELSE <<n % 2>> \o NatBits(n \div 2)

RECURSIVE BitsNat(_)
BitsNat(b) == IF b = <<>> THEN 0 ELSE b[1] + 2 * BitsNat(Tail(b))

Bit(b, i) == IF i <= Len(b) THEN b[i] ELSE 0

\* a & b
BitAnd(a, b) == Trim([i \in 1..Min(Len(a), Len(b)) |-> a[i] * b[i]])

\* a | b
BitOr(a, b) ==
    Trim([i \in 1..Max(Len(a), Len(b)) |->
             IF Bit(a, i) + Bit(b, i) > 0 THEN 1 ELSE 0])

\* a >> k
Shr(a, k) == SubSeq(a, k + 1, Len(a))

\* a << k
Shl(a, k) == IF a = <<>> THEN <<>> ELSE [i \in 1..k |-> 0] \o a

\* a < b
BitsLess(a, b) ==
    \/ Len(a) < Len(b)
    \/ /\ Len(a) = Len(b)
       /\ \E i \in 1..Len(a) :
             /\ a[i] < b[i]
             /\ \A j \in (i + 1)..Len(a) : a[j] = b[j]

\* 2^k for k in 0..16
Pow2(k) == <<1, 2, 4, 8, 16, 32, 64, 128, 256, 512, 1024, 2048, 4096, 8192,
             16384, 32768, 65536>>[k + 1]

\* Decimal conversion works on 16-bit limbs (little-endian), which keeps the
\* recursion shallow: a = SUM Limbs(a)[j] * 65536^(j-1).
Limbs(a) ==
    [j \in 1..((Len(a) + 15) \div 16) |->
        BitsNat(SubSeq(a, 16 * (j - 1) + 1, Min(16 * j, Len(a))))]
OfLimbs(l) ==
    Trim([i \in 1..(16 * Len(l)) |->
            (l[((i - 1) \div 16) + 1] \div Pow2((i - 1) % 16)) % 2])

\* l * 10 + c on limbs
RECURSIVE LimbsMul10Add(_, _)
LimbsMul10Add(l, c) ==
    IF l = <<>> THEN (IF c = 0 THEN <<>> ELSE <<c>>)
    ELSE LET t == l[1] * 10 + c
         IN  <<t % 65536>> \o LimbsMul10Add(Tail(l), t \div 65536)

\* divmod(l, 10) on limbs
RECURSIVE LimbsDivMod10(_)
LimbsDivMod10(l) ==
    IF l = <<>> THEN [q |-> <<>>, r |-> 0]
    ELSE LET hi == LimbsDivMod10(Tail(l))
             t  == hi.r * 65536 + l[1]
         IN  [q |-> <<t \div 10>> \o hi.q, r |-> t % 10]

RECURSIVE DecLimbs(_)
DecLimbs(d) ==
    IF d = <<>> THEN <<>>
    ELSE LimbsMul10Add(DecLimbs(SubSeq(d, 1, Len(d) - 1)), d[Len(d)])

\* the number whose decimal digits (most significant first) are d
Dec(d) == OfLimbs(DecLimbs(d))

RECURSIVE DigitsLimbs(_)
DigitsLimbs(l) ==
    IF \A j \in 1..Len(l) : l[j] = 0 THEN <<>>
    ELSE LET dm == LimbsDivMod10(l) IN Append(DigitsLimbs(dm.q), dm.r)

\* the decimal digits of a, most significant first (none for 0)
Digits(a) == DigitsLimbs(Limbs(a))

PyInt(n) == [neg |-> n < 0, mag |-> NatBits(IF n < 0 THEN -n ELSE n)]
PyNat(b) == [neg |-> FALSE, mag |-> Trim(b)]
PyNeg(b) == [neg |-> Trim(b) # <<>>, mag |-> Trim(b)]
\* the number n as the model checker's own integer (|n| < 2^31)
Small(n) == IF n.neg THEN -BitsNat(n.mag) ELSE BitsNat(n.mag)

\* a < b and a <= b on Python integers
PyLess(a, b) ==
    IF a.neg /\ ~b.neg THEN TRUE
    ELSE IF ~a.neg /\ b.neg THEN FALSE
    ELSE IF a.neg THEN BitsLess(b.mag, a.mag)
    ELSE BitsLess(a.mag, b.mag)
PyLeq(a, b) == a = b \/ PyLess(a, b)

\* str(n)
PyStr(n) ==
    LET dg == Digits(n.mag)
        d  == [i \in 1..Len(dg) |-> 48 + dg[i]]
    IN  IF n.mag = <<>> THEN <<48>>
        ELSE IF n.neg THEN <<45>> \o d ELSE d

Raise == [ok |-> FALSE, value |-> <<>>]
Ok(v) == [ok |-> TRUE, value |-> v]

\* s[a:b] and s[a:] of Python, for 0 <= a
Slice(s, a, b) == SubSeq(s, a + 1, Min(b, Len(s)))
SliceFrom(s, a) == SubSeq(s, a + 1, Len(s))

(***************************************************************************)
(* struct.pack / struct.unpack, little-endian.                             *)
(***************************************************************************)
\* struct.pack("<B" | "<H" | "<I" | "<Q", v): n bytes, v in 0..2^(8n)-1
StructPack(n, mag) ==
    [i \in 1..n |-> BitsNat(SubSeq(mag, 8 * (i - 1) + 1, Min(8 * i, Len(mag))))]

\* struct.unpack of the same formats: the buffer must hold exactly n bytes
StructUnpack(n, bytes_) ==
    IF Len(bytes_) # n THEN Raise
    ELSE Ok(PyNat([i \in 1..(8 * n) |->
                     (bytes_[((i - 1) \div 8) + 1] \div Pow2((i - 1) % 8)) % 2]))

(***************************************************************************)
(* Int8, Uint8, Uint16, Uint32, Uint64.                                    *)
(***************************************************************************)
Int8_new(v) ==
    IF PyLeq(PyInt(-128), v) /\ PyLess(v, PyInt(128)) THEN Ok(v) ELSE Raise

\* struct.pack("<b", value): two's complement
Int8_bytes(value) ==
    <<IF value.neg THEN 256 - BitsNat(value.mag) ELSE BitsNat(value.mag)>>

Int8_from_bytes(bytes_) ==
    LET u == StructUnpack(1, Slice(bytes_, 0, 1))
    IN  IF ~u.ok THEN Raise
        ELSE Int8_new(IF Small(u.value) >= 128
                      THEN PyInt(Small(u.value) - 256) ELSE u.value)

Uint8_new(v) ==
    IF PyLeq(PyInt(0), v) /\ PyLess(v, PyInt(256)) THEN Ok(v) ELSE Raise

Uint8_bytes(value) == StructPack(1, value.mag)

Uint8_from_bytes(bytes_) ==
    LET u == StructUnpack(1, Slice(bytes_, 0, 1))
    IN  IF ~u.ok THEN Raise ELSE Uint8_new(u.value)

Uint16_new(v) ==
    IF PyLeq(PyInt(0), v) /\ PyLess(v, PyInt(65536)) THEN Ok(v) ELSE Raise

Uint16_bytes(value) == StructPack(2, value.mag)

Uint16_from_bytes(bytes_) ==
    LET u == StructUnpack(2, Slice(bytes_, 0, 2))
    IN  IF ~u.ok THEN Raise ELSE Uint16_new(u.value)

Uint32_new(v) ==
    IF PyLeq(PyInt(0), v) /\ PyLess(v, PyNat(Dec(<<4, 2, 9, 4, 9, 6, 7, 2, 9, 6>>)))
    THEN Ok(v) ELSE Raise

Uint32_bytes(value) == StructPack(4, value.mag)

Uint32_from_bytes(bytes_) ==
    LET u == StructUnpack(4, Slice(bytes_, 0, 4))
    IN  IF ~u.ok THEN Raise ELSE Uint32_new(u.value)

Uint64_new(v) ==
    IF /\ PyLeq(PyInt(0), v)
       /\ PyLess(v, PyNat(Dec(<<1, 8, 4, 4, 6, 7, 4, 4, 0, 7, 3, 7, 0, 9, 5, 5,
                                1, 6, 1, 6>>)))
    THEN Ok(v) ELSE Raise

Uint64_bytes(value) == StructPack(8, value.mag)

\* struct.unpack("<Q", bytes_): the whole buffer, not its first 8 bytes
Uint64_from_bytes(bytes_) ==
    LET u == StructUnpack(8, bytes_)
    IN  IF ~u.ok THEN Raise ELSE Uint64_new(u.value)

(***************************************************************************)
(* Varuint32.                                                              *)
(***************************************************************************)
\* Varuint32_new with the upper bound one too high
Varuint32_new_off_by_one(v) ==
    IF /\ PyLeq(PyInt(0), v)
       /\ PyLeq(v, PyNat(Dec(<<2, 0, 9, 8, 9, 3, 7, 1, 9, 8, 0>>)))
    THEN Ok(v) ELSE Raise

Varuint32_new(v) ==
    IF /\ PyLeq(PyInt(0), v)
       /\ PyLeq(v, PyNat(Dec(<<2, 0, 9, 8, 9, 3, 7, 1, 9, 7, 9>>)))
    THEN Ok(v) ELSE Raise

\* the loop of Varuint32.__bytes__ from the value val on
RECURSIVE Varuint32_bytes_loop(_)
Varuint32_bytes_loop(val) ==
    LET b0   == BitAnd(val, NatBits(127))
        val1 == Shr(val, 7)
        b    == BitOr(b0, Shl(IF val1 # <<>> THEN <<1>> ELSE <<>>, 7))
        byte == Uint8_bytes(Uint8_new(PyNat(b)).value)
    IN  IF val1 = <<>> THEN byte ELSE byte \o Varuint32_bytes_loop(val1)

Varuint32_bytes(value) == Varuint32_bytes_loop(value.mag)

\* the loop of Varuint32.from_bytes at byte n (0-based), value and offset
\* as accumulated so far
RECURSIVE Varuint32_from_bytes_loop(_, _, _, _)
Varuint32_from_bytes_loop(bytes_, n, value, offset) ==
    IF n >= Len(bytes_) THEN value
    ELSE LET byte     == bytes_[n + 1]
             partial  == BitAnd(NatBits(byte), NatBits(127))
             value1   == BitOr(value, Shl(partial, offset))
         IN  IF n >= 8 THEN value1
             ELSE IF BitAnd(NatBits(byte), NatBits(128)) = <<>> THEN value1
             ELSE Varuint32_from_bytes_loop(bytes_, n + 1, value1, offset + 7)

\* the number of bytes the loop of Varuint32.from_bytes reads, from byte n
\* (0-based) on: it leaves after the ninth byte, after a byte with the high
\* bit clear, and when the buffer is exhausted
RECURSIVE Varuint32_from_bytes_read(_, _)
Varuint32_from_bytes_read(bytes_, n) ==
    IF n >= Len(bytes_) THEN n
    ELSE IF n >= 8 THEN n + 1
    ELSE IF BitAnd(NatBits(bytes_[n + 1]), NatBits(128)) = <<>> THEN n + 1
    ELSE Varuint32_from_bytes_read(bytes_, n + 1)

Varuint32_from_bytes(bytes_) ==
    Varuint32_new(PyNat(Varuint32_from_bytes_loop(bytes_, 0, <<>>, 0)))

(***************************************************************************)
(* Bool.                                                                   *)
(***************************************************************************)
Bool_new(v) == Ok(v)

\* pydantic's bool given an integer: 1 is True, 0 is False, no other value
Bool_new_int(n) ==
    IF n = PyInt(1) THEN Ok(TRUE)
    ELSE IF n = PyInt(0) THEN Ok(FALSE)
    ELSE Raise

Bool_bytes(value) == IF value THEN <<1>> ELSE <<0>>

\* int(bytes_[:1].hex(), 16): int("", 16) raises on an empty buffer
Bool_from_bytes(bytes_) ==
    IF Slice(bytes_, 0, 1) = <<>> THEN Raise
    ELSE Bool_new_int(PyInt(bytes_[1]))

(***************************************************************************)
(* String.                                                                 *)
(***************************************************************************)
\* len(chr(c).encode("utf8"))
Utf8Len(c) == IF c < 128 THEN 1 ELSE IF c < 2048 THEN 2
              ELSE IF c < 65536 THEN 3 ELSE 4

\* str.encode("utf8") of a string of single-byte characters
Utf8Encode(v) == v

\* must_not_contain_multi_utf_char
String_new(v) ==
    IF \E i \in 1..Len(v) : Utf8Len(v[i]) > 1 THEN Raise ELSE Ok(v)

String_bytes(value) ==
    Varuint32_bytes(Varuint32_new(PyInt(Len(Utf8Encode(value)))).value)
        \o Utf8Encode(value)

\* bytes_[start : start + size] for a size that may exceed the buffer
SliceLen(bytes_, start, size) ==
    IF PyLess(size, PyInt(Len(bytes_))) THEN Slice(bytes_, start, start + Small(size))
    ELSE SliceFrom(bytes_, start)

\* string_bytes.decode("utf8") followed by the String validator: a byte
\* >= 128 is either an invalid sequence (UnicodeDecodeError) or part of a
\* multi-byte character, which the validator refuses
String_from_bytes(bytes_) ==
    LET size == Varuint32_from_bytes(bytes_)
        start == Len(Varuint32_bytes(size.value))
        string_bytes == SliceLen(bytes_, start, size.value)
    IN  IF ~size.ok THEN Raise
        ELSE IF \E i \in 1..Len(string_bytes) : string_bytes[i] >= 128 THEN Raise
        ELSE String_new(string_bytes)


(***************************************************************************)
(* Name.                                                                   *)
(***************************************************************************)
IsNameChar(c) == c = 46 \/ c \in 97..122 \/ c \in 49..53

\* re.match of ^[\.a-z1-5]*[a-z1-5]+[\.a-z1-5]*$|^(?![\s\S]) : "$" also
\* matches before a final newline
NameRegex(v) ==
    LET w == IF v # <<>> /\ v[Len(v)] = 10 THEN SubSeq(v, 1, Len(v) - 1) ELSE v
    IN  \/ v = <<>>
        \/ /\ \A i \in 1..Len(w) : IsNameChar(w[i])
           /\ \E i \in 1..Len(w) : w[i] # 46

\* constr(max_length=13, regex=...) and last_char_restriction
Name_new(v) ==
    IF Len(v) > 13 \/ ~NameRegex(v) THEN Raise
    ELSE IF Len(v) = 13 /\ ~(v[13] \in 97..106 \/ v[13] = 46) THEN Raise
    ELSE Ok(v)

\* value.replace(".", "")
RECURSIVE RemoveDots(_)
RemoveDots(v) ==
    IF v = <<>> THEN <<>>
    ELSE IF v[1] = 46 THEN RemoveDots(Tail(v))
    ELSE <<v[1]>> \o RemoveDots(Tail(v))

\* Name_eq without the replace(".", "")
Name_eq_exact(value, other) == value = other

\* Name.__eq__ on two Name values
Name_eq(value, other) == RemoveDots(value) = RemoveDots(other)

char_to_symbol(c) ==
    IF c >= 97 /\ c <= 122 THEN (c - 97) + 6
    ELSE IF c >= 49 /\ c <= 53 THEN (c - 49) + 1
    ELSE 0

\* the while loop of string_to_uint64 from index i on
RECURSIVE string_to_uint64_loop(_, _, _)
string_to_uint64_loop(s_, i, name) ==
    IF i < Min(Len(s_), 12)
    THEN string_to_uint64_loop(s_, i + 1,
             BitOr(name, Shl(BitAnd(NatBits(char_to_symbol(s_[i + 1])), NatBits(31)),
                             64 - 5 * (i + 1))))
    ELSE name

\* [ok, value]: more than 13 characters raise "invalid string length"
string_to_uint64(s_) ==
    LET name == string_to_uint64_loop(s_, 0, <<>>)
    IN  IF Len(s_) > 13 THEN Raise
        ELSE IF Len(s_) = 13
        THEN Ok(BitOr(name, BitAnd(NatBits(char_to_symbol(s_[13])), NatBits(15))))
        ELSE Ok(name)

charmap == <<46, 49, 50, 51, 52, 53, 97, 98, 99, 100, 101, 102, 103, 104, 105,
             106, 107, 108, 109, 110, 111, 112, 113, 114, 115, 116, 117, 118,
             119, 120, 121, 122>>

\* tmp after i rounds of the for loop of uint64_to_string
TmpAt(n, i) == IF i = 0 THEN n ELSE Shr(n, 4 + 5 * (i - 1))

\* str.strip("."): leading and trailing dots
RECURSIVE StripDots(_)
StripDots(v) ==
    IF v = <<>> THEN v
    ELSE IF v[1] = 46 THEN StripDots(Tail(v))
    ELSE IF v[Len(v)] = 46 THEN StripDots(SubSeq(v, 1, Len(v) - 1))
    ELSE v

uint64_to_string(n, strip_dots) ==
    LET str == [k \in 1..13 |->
                  LET i == 13 - k
                  IN  charmap[BitsNat(BitAnd(TmpAt(n, i),
                                  NatBits(IF i = 0 THEN 15 ELSE 31))) + 1]]
    IN  IF strip_dots THEN StripDots(str) ELSE str

\* bytes(uint64) of the number made of value_int
Name_bytes_of(value_int) ==
    IF ~value_int.ok THEN Raise
    ELSE Ok(Uint64_bytes(Uint64_new(PyNat(value_int.value)).value))

\* [ok, value]
Name_bytes(value) == Name_bytes_of(string_to_uint64(value))

Name_from_bytes(bytes_) ==
    LET uint64 == Uint64_from_bytes(bytes_)
    IN  IF ~uint64.ok THEN Raise
        ELSE Name_new(uint64_to_string(uint64.value.mag, TRUE))


(***************************************************************************)
(* Python's str helpers used by Symbol and Asset.                          *)
(***************************************************************************)
\* "0" <= c <= "9"
IsDigit(c) == c \in 48..57
\* chr(c).isspace(), the characters str.strip() removes
IsSpace(c) ==
    \/ c \in {9, 10, 11, 12, 13, 28, 29, 30, 31, 32, 133, 160, 5760}
    \/ c \in 8192..8202
    \/ c \in {8232, 8233, 8239, 8287, 12288}
\* the blanks int() and float() skip around a number: those of isspace()
\* except the separators 0x1C..0x1F
IsNumSpace(c) == IsSpace(c) /\ c \notin 28..31
\* the code point of the digit zero of every run of ten decimal digits
\* (Unicode category Nd) that int() and float() read as 0..9
DecimalZeros ==
    {
     48, 1632, 1776, 1984, 2406, 2534, 2662, 2790, 2918,
     3046, 3174, 3302, 3430, 3558, 3664, 3792, 3872, 4160,
     4240, 6112, 6160, 6470, 6608, 6784, 6800, 6992, 7088,
     7232, 7248, 42528, 43216, 43264, 43472, 43504, 43600, 44016,
     65296, 66720, 68912, 69734, 69872, 69942, 70096, 70384, 70736,
     70864, 71248, 71360, 71472, 71904, 72016, 72784, 73040, 73120,
     92768, 92864, 93008, 120782, 120792, 120802, 120812, 120822, 123200,
     123632, 125264, 130032
    }
\* the decimal value of the character c, -1 when it is no decimal digit
ToDecimal(c) ==
    IF \E z \in DecimalZeros : c \in z..(z + 9)
    THEN c - (CHOOSE z \in DecimalZeros : c \in z..(z + 9))
    ELSE -1
\* chr(c).isupper() for c in 0..255
IsUpper(c) == c \in 65..90 \/ c \in 192..214 \/ c \in 216..222

\* the index of the first c in s, 0 when there is none
IndexOf(s, c) ==
    IF \E i \in 1..Len(s) : s[i] = c
    THEN CHOOSE i \in 1..Len(s) : s[i] = c /\ \A j \in 1..(i - 1) : s[j] # c
    ELSE 0

\* str.strip()
RECURSIVE Strip(_)
Strip(v) ==
    IF v = <<>> THEN v
    ELSE IF IsSpace(v[1]) THEN Strip(Tail(v))
    ELSE IF IsSpace(v[Len(v)]) THEN Strip(SubSeq(v, 1, Len(v) - 1))
    ELSE v

\* the blanks int() and float() skip before and after the number
RECURSIVE StripNum(_)
StripNum(v) ==
    IF v = <<>> THEN v
    ELSE IF IsNumSpace(v[1]) THEN StripNum(Tail(v))
    ELSE IF IsNumSpace(v[Len(v)]) THEN StripNum(SubSeq(v, 1, Len(v) - 1))
    ELSE v

\* str.split(sep): the list of parts
RECURSIVE Split(_, _)
Split(v, sep) ==
    LET i == IndexOf(v, sep)
    IN  IF i = 0 THEN <<v>>
        ELSE <<SubSeq(v, 1, i - 1)>> \o Split(SubSeq(v, i + 1, Len(v)), sep)

\* digits, with single underscores between digits (Python's numeric literals)
IsDigitRun(v) ==
    /\ v # <<>>
    /\ \A i \in 1..Len(v) :
          \/ ToDecimal(v[i]) >= 0
          \/ /\ v[i] = 95 /\ i > 1 /\ i < Len(v)
             /\ ToDecimal(v[i - 1]) >= 0 /\ ToDecimal(v[i + 1]) >= 0
IsDecimal(c) == ToDecimal(c) >= 0
DigitVals(v) ==
    LET d == SelectSeq(v, IsDecimal) IN [i \in 1..Len(d) |-> ToDecimal(d[i])]

\* sys.get_int_max_str_digits(): int() refuses a text with more digits
IntMaxStrDigits == 4300

\* int(v) for a str v
PyIntOfStr(v) ==
    LET w    == StripNum(v)
        sign == w # <<>> /\ w[1] \in {43, 45}
        body == IF sign THEN Tail(w) ELSE w
    IN  IF ~IsDigitRun(body) THEN Raise
        \* leading zeros count, underscores do not
        ELSE IF Len(SelectSeq(body, IsDecimal)) > IntMaxStrDigits THEN Raise
        ELSE IF sign /\ w[1] = 45 THEN Ok(PyNeg(Dec(DigitVals(body))))
        ELSE Ok(PyNat(Dec(DigitVals(body))))

\* re.search("^[A-Z]{1,7}$", name): "$" also matches before a final newline
CodeRegex(name) ==
    LET w == IF name # <<>> /\ name[Len(name)] = 10
             THEN SubSeq(name, 1, Len(name) - 1) ELSE name
    IN  Len(w) \in 1..7 /\ \A i \in 1..Len(w) : w[i] \in 65..90

(***************************************************************************)
(* Symbol.                                                                 *)
(***************************************************************************)
\* name_must_be_of_valid_length, precision_must_be_in_the_valid_range
Symbol_new(v) ==
    LET parts     == Split(v, 44)
        precision == PyIntOfStr(parts[1])
    IN  IF Len(parts) < 2 THEN Raise
        ELSE IF ~CodeRegex(parts[2]) THEN Raise
        ELSE IF ~precision.ok THEN Raise
        ELSE IF PyLess(precision.value, PyInt(0))
                  \/ PyLess(PyInt(16), precision.value) THEN Raise
        ELSE Ok(v)

\* Symbol_bytes with the padding loop stopping one byte early
Symbol_bytes_short(value) ==
    LET precision == PyIntOfStr(Split(value, 44)[1]).value
        name      == Split(value, 44)[2]
        leftover_byte_space == Len(name) + 1
    IN  StructPack(1, BitAnd(precision.mag, NatBits(255)))
            \o Utf8Encode(name)
            \o [j \in 1..(7 - leftover_byte_space) |-> 0]

Symbol_bytes(value) ==
    LET precision == PyIntOfStr(Split(value, 44)[1]).value
        name      == Split(value, 44)[2]
        leftover_byte_space == Len(name) + 1
    IN  StructPack(1, BitAnd(precision.mag, NatBits(255)))
            \o Utf8Encode(name)
            \o [j \in 1..(8 - leftover_byte_space) |-> 0]

Symbol_from_bytes(bytes_) ==
    LET bytes_len == Len(bytes_)
        found == \E i \in 0..(bytes_len - 1) : IsUpper(bytes_[i + 1])
        \* the first i with an uppercase byte (0-based)
        i == CHOOSE i \in 0..(bytes_len - 1) :
                /\ IsUpper(bytes_[i + 1])
                /\ \A j \in 0..(i - 1) : ~IsUpper(bytes_[j + 1])
        name_bytes0 == SliceFrom(bytes_, i)
        \* the k of the inner loop that shorten name_bytes: bytes_[k] not upper
        cuts == {k \in 1..Len(name_bytes0) : k < bytes_len /\ ~IsUpper(bytes_[k + 1])}
        name_bytes == IF cuts = {} THEN name_bytes0
                      ELSE Slice(name_bytes0, 0,
                                 (CHOOSE k \in cuts : \A m \in cuts : k <= m) - 1)
    IN  IF ~found THEN Symbol_new(<<44>>)
        \* bytes_[k] with k = len(bytes_) is an IndexError
        ELSE IF Len(name_bytes0) >= bytes_len THEN Raise
        \* name_bytes.decode("utf8") of a lone byte >= 192
        ELSE IF \E j \in 1..Len(name_bytes) : name_bytes[j] >= 128 THEN Raise
        ELSE Symbol_new(PyStr(PyInt(bytes_[1])) \o <<44>> \o name_bytes)


(***************************************************************************)
(* float(str), as far as Asset's range check reads it.                     *)
(***************************************************************************)
ToLower(v) == [i \in 1..Len(v) |-> IF v[i] \in 65..90 THEN v[i] + 32 ELSE v[i]]

\* l * 10^k on limbs
RECURSIVE LimbsMulPow10(_, _)
LimbsMulPow10(l, k) ==
    IF k = 0 THEN l ELSE LimbsMulPow10(LimbsMul10Add(l, 0), k - 1)

\* the digits d without their leading zeros
RECURSIVE StripZeros(_)
StripZeros(d) ==
    IF d # <<>> /\ d[1] = 0 THEN StripZeros(Tail(d)) ELSE d

\* float(v): [ok, kind, neg, digits, scale], the value being
\* (-1)^neg * digits * 10^scale for kind "num"
PyFloatOfStr(v) ==
    LET w     == StripNum(v)
        sign  == w # <<>> /\ w[1] \in {43, 45}
        neg   == sign /\ w[1] = 45
        body  == IF sign THEN Tail(w) ELSE w
        low   == ToLower(body)
        epos  == IndexOf(low, 101)
        mant  == IF epos = 0 THEN body ELSE SubSeq(body, 1, epos - 1)
        expo  == IF epos = 0 THEN <<48>> ELSE SubSeq(body, epos + 1, Len(body))
        esign == expo # <<>> /\ expo[1] \in {43, 45}
        edig  == IF esign THEN Tail(expo) ELSE expo
        dot   == IndexOf(mant, 46)
        ip    == IF dot = 0 THEN mant ELSE SubSeq(mant, 1, dot - 1)
        fp    == IF dot = 0 THEN <<>> ELSE SubSeq(mant, dot + 1, Len(mant))
        \* an exponent past 1100000000 is read as 1100000000
        edec  == StripZeros(DigitVals(edig))
        e     == IF Len(edec) > 9 THEN 1100000000 ELSE BitsNat(Dec(edec))
        bad   == [ok |-> FALSE, kind |-> "", neg |-> FALSE, digits |-> <<>>, scale |-> 0]
    IN  IF low \in {<<105, 110, 102>>, <<105, 110, 102, 105, 110, 105, 116, 121>>}
        THEN [ok |-> TRUE, kind |-> "inf", neg |-> neg, digits |-> <<>>, scale |-> 0]
        ELSE IF low = <<110, 97, 110>>
        THEN [ok |-> TRUE, kind |-> "nan", neg |-> neg, digits |-> <<>>, scale |-> 0]
        ELSE IF ~IsDigitRun(edig) THEN bad
        ELSE IF ip = <<>> /\ fp = <<>> THEN bad
        ELSE IF (ip # <<>> /\ ~IsDigitRun(ip)) \/ (fp # <<>> /\ ~IsDigitRun(fp)) THEN bad
        ELSE [ok |-> TRUE, kind |-> "num", neg |-> neg,
              digits |-> DigitVals(ip) \o DigitVals(fp),
              scale |-> (IF esign /\ expo[1] = 45 THEN -e ELSE e) - Len(DigitVals(fp))]

\* the digits of 5^1075: 2^-1075 = 5^1075 * 10^-1075 is half the smallest
\* double above zero
HalfMinDoubleDigits ==
    <<
      2, 4, 7, 0, 3, 2, 8, 2, 2, 9, 2, 0, 6, 2, 3, 2, 7, 2, 0, 8, 8, 2, 8, 4,
      3, 9, 6, 4, 3, 4, 1, 1, 0, 6, 8, 6, 1, 8, 2, 5, 2, 9, 9, 0, 1, 3, 0, 7,
      1, 6, 2, 3, 8, 2, 2, 1, 2, 7, 9, 2, 8, 4, 1, 2, 5, 0, 3, 3, 7, 7, 5, 3,
      6, 3, 5, 1, 0, 4, 3, 7, 5, 9, 3, 2, 6, 4, 9, 9, 1, 8, 1, 8, 0, 8, 1, 7,
      9, 9, 6, 1, 8, 9, 8, 9, 8, 2, 8, 2, 3, 4, 7, 7, 2, 2, 8, 5, 8, 8, 6, 5,
      4, 6, 3, 3, 2, 8, 3, 5, 5, 1, 7, 7, 9, 6, 9, 8, 9, 8, 1, 9, 9, 3, 8, 7,
      3, 9, 8, 0, 0, 5, 3, 9, 0, 9, 3, 9, 0, 6, 3, 1, 5, 0, 3, 5, 6, 5, 9, 5,
      1, 5, 5, 7, 0, 2, 2, 6, 3, 9, 2, 2, 9, 0, 8, 5, 8, 3, 9, 2, 4, 4, 9, 1,
      0, 5, 1, 8, 4, 4, 3, 5, 9, 3, 1, 8, 0, 2, 8, 4, 9, 9, 3, 6, 5, 3, 6, 1,
      5, 2, 5, 0, 0, 3, 1, 9, 3, 7, 0, 4, 5, 7, 6, 7, 8, 2, 4, 9, 2, 1, 9, 3,
      6, 5, 6, 2, 3, 6, 6, 9, 8, 6, 3, 6, 5, 8, 4, 8, 0, 7, 5, 7, 0, 0, 1, 5,
      8, 5, 7, 6, 9, 2, 6, 9, 9, 0, 3, 7, 0, 6, 3, 1, 1, 9, 2, 8, 2, 7, 9, 5,
      5, 8, 5, 5, 1, 3, 3, 2, 9, 2, 7, 8, 3, 4, 3, 3, 8, 4, 0, 9, 3, 5, 1, 9,
      7, 8, 0, 1, 5, 5, 3, 1, 2, 4, 6, 5, 9, 7, 2, 6, 3, 5, 7, 9, 5, 7, 4, 6,
      2, 2, 7, 6, 6, 4, 6, 5, 2, 7, 2, 8, 2, 7, 2, 2, 0, 0, 5, 6, 3, 7, 4, 0,
      0, 6, 4, 8, 5, 4, 9, 9, 9, 7, 7, 0, 9, 6, 5, 9, 9, 4, 7, 0, 4, 5, 4, 0,
      2, 0, 8, 2, 8, 1, 6, 6, 2, 2, 6, 2, 3, 7, 8, 5, 7, 3, 9, 3, 4, 5, 0, 7,
      3, 6, 3, 3, 9, 0, 0, 7, 9, 6, 7, 7, 6, 1, 9, 3, 0, 5, 7, 7, 5, 0, 6, 7,
      4, 0, 1, 7, 6, 3, 2, 4, 6, 7, 3, 6, 0, 0, 9, 6, 8, 9, 5, 1, 3, 4, 0, 5,
      3, 5, 5, 3, 7, 4, 5, 8, 5, 1, 6, 6, 6, 1, 1, 3, 4, 2, 2, 3, 7, 6, 6, 6,
      7, 8, 6, 0, 4, 1, 6, 2, 1, 5, 9, 6, 8, 0, 4, 6, 1, 9, 1, 4, 4, 6, 7, 2,
      9, 1, 8, 4, 0, 3, 0, 0, 5, 3, 0, 0, 5, 7, 5, 3, 0, 8, 4, 9, 0, 4, 8, 7,
      6, 5, 3, 9, 1, 7, 1, 1, 3, 8, 6, 5, 9, 1, 6, 4, 6, 2, 3, 9, 5, 2, 4, 9,
      1, 2, 6, 2, 3, 6, 5, 3, 8, 8, 1, 8, 7, 9, 6, 3, 6, 2, 3, 9, 3, 7, 3, 2,
      8, 0, 4, 2, 3, 8, 9, 1, 0, 1, 8, 6, 7, 2, 3, 4, 8, 4, 9, 7, 6, 6, 8, 2,
      3, 5, 0, 8, 9, 8, 6, 3, 3, 8, 8, 5, 8, 7, 9, 2, 5, 6, 2, 8, 3, 0, 2, 7,
      5, 5, 9, 9, 5, 6, 5, 7, 5, 2, 4, 4, 5, 5, 5, 0, 7, 2, 5, 5, 1, 8, 9, 3,
      1, 3, 6, 9, 0, 8, 3, 6, 2, 5, 4, 7, 7, 9, 1, 8, 6, 9, 4, 8, 6, 6, 7, 9,
      9, 4, 9, 6, 8, 3, 2, 4, 0, 4, 9, 7, 0, 5, 8, 2, 1, 0, 2, 8, 5, 1, 3, 1,
      8, 5, 4, 5, 1, 3, 9, 6, 2, 1, 3, 8, 3, 7, 7, 2, 2, 8, 2, 6, 1, 4, 5, 4,
      3, 7, 6, 9, 3, 4, 1, 2, 5, 3, 2, 0, 9, 8, 5, 9, 1, 3, 2, 7, 6, 6, 7, 2,
      3, 6, 3, 2, 8, 1, 2, 5
    >>

\* a > b for digit strings without leading zeros that stand for fractions
\* 0.a and 0.b
DigitsGreater(a, b) ==
    \E i \in 1..Max(Len(a), Len(b)) :
        /\ (IF i <= Len(a) THEN a[i] ELSE 0) > (IF i <= Len(b) THEN b[i] ELSE 0)
        /\ \A j \in 1..(i - 1) :
              (IF j <= Len(a) THEN a[j] ELSE 0) = (IF j <= Len(b) THEN b[j] ELSE 0)

\* the double nearest to the written number is zero: the number is zero or
\* at most 2^-1075 (round to nearest, ties to even)
FloatIsZero(f) ==
    \/ StripZeros(f.digits) = <<>>
    \/ Len(StripZeros(f.digits)) + f.scale < -323
    \/ /\ Len(StripZeros(f.digits)) + f.scale = -323
       /\ ~DigitsGreater(StripZeros(f.digits), HalfMinDoubleDigits)

\* f < 0: -0.0 is not
FloatNegative(f) ==
    \/ f.kind = "inf" /\ f.neg
    \/ f.kind = "num" /\ f.neg /\ ~FloatIsZero(f)

\* f > 18446744073709551615: the double nearest to the written number is
\* 2^64 or more, which is so from 2^64 - 1024 on (round to nearest, ties to even)
FloatAboveUint64(f) ==
    LET t == DecLimbs(<<1, 8, 4, 4, 6, 7, 4, 4, 0, 7, 3, 7, 0, 9, 5, 5, 0, 5, 9, 2>>)
        d == DecLimbs(f.digits)
        zero == \A i \in 1..Len(f.digits) : f.digits[i] = 0
    IN  \/ f.kind = "inf" /\ ~f.neg
        \/ /\ f.kind = "num" /\ ~f.neg /\ ~zero
           /\ IF f.scale >= 0
              THEN f.scale > 20
                     \/ ~BitsLess(OfLimbs(LimbsMulPow10(d, f.scale)), OfLimbs(t))
              ELSE -f.scale <= Len(f.digits)
                     /\ ~BitsLess(OfLimbs(d), OfLimbs(LimbsMulPow10(t, -f.scale)))

(***************************************************************************)
(* Asset.                                                                  *)
(***************************************************************************)
\* the four validators, in the order of the class body
Asset_new(v) ==
    LET stripped_value == Strip(v)
        value_list == Split(stripped_value, 32)
        pos    == IndexOf(stripped_value, 46)       \* index(".") + 1, 0-based
        amount == PyFloatOfStr(value_list[1])
    IN  \* amount_must_be_in_the_valid_range
        IF Len(value_list) # 2 THEN Raise
        \* check_for_frac_digit_if_decimal_exists (stripped_value[pos] past the
        \* end is an IndexError)
        ELSE IF pos # 0 /\ (pos >= Len(stripped_value)
                              \/ ~IsDigit(stripped_value[pos + 1])) THEN Raise
        \* check_if_amount_is_valid
        ELSE IF ~amount.ok THEN Raise
        ELSE IF FloatNegative(amount) \/ FloatAboveUint64(amount) THEN Raise
        \* check_if_name_is_valid
        ELSE IF ~CodeRegex(value_list[2]) THEN Raise
        ELSE Ok(v)

Asset_get_name(value) == Split(Strip(value), 32)[2]

\* the digits read from position pos (0-based) on; reading past the end of
\* the string is an IndexError
DigitsFrom(stripped_value, pos) ==
    LET stop == IF \E j \in (pos + 1)..Len(stripped_value) : ~IsDigit(stripped_value[j])
                THEN CHOOSE j \in (pos + 1)..Len(stripped_value) :
                        /\ ~IsDigit(stripped_value[j])
                        /\ \A m \in (pos + 1)..(j - 1) : IsDigit(stripped_value[m])
                ELSE 0
    IN  IF stop = 0 THEN Raise ELSE Ok(SubSeq(stripped_value, pos + 1, stop - 1))

Asset_get_int_digits(value) ==
    LET stripped_value == Strip(value)
        minus == stripped_value # <<>> /\ stripped_value[1] = 45
        run   == DigitsFrom(stripped_value, IF minus THEN 1 ELSE 0)
    IN  IF ~run.ok THEN Raise
        ELSE Ok((IF minus THEN <<45>> ELSE <<>>) \o run.value)

Asset_get_frac_digits(value) ==
    LET stripped_value == Strip(value)
        dot == IndexOf(stripped_value, 46)
    IN  IF dot = 0 THEN Ok(<<>>) ELSE DigitsFrom(stripped_value, dot)

Asset_get_precision(value) == Len(Asset_get_frac_digits(value).value)

\* [ok, value]: the bytes, or the exception of int(), Uint64() or Symbol()
Asset_bytes(value) ==
    LET int_digits  == Asset_get_int_digits(value)
        frac_digits == Asset_get_frac_digits(value)
        number == PyIntOfStr(int_digits.value \o frac_digits.value)
        amount == Uint64_new(number.value)
        name   == Asset_get_name(value)
        symbol == Symbol_new(PyStr(PyInt(Asset_get_precision(value))) \o <<44>> \o name)
    IN  IF ~int_digits.ok \/ ~frac_digits.ok THEN Raise
        ELSE IF ~number.ok THEN Raise
        ELSE IF ~amount.ok THEN Raise
        ELSE IF ~symbol.ok THEN Raise
        ELSE Ok(Uint64_bytes(amount.value) \o Symbol_bytes(symbol.value))

\* str(symbol).split(",")[1][:-1] for str(symbol) = "value='<p>,<NAME>'"
SymbolStrName(symbol_value) ==
    LET text == <<118, 97, 108, 117, 101, 61, 39>> \o symbol_value \o <<39>>
        part == Split(text, 44)[2]
    IN  SubSeq(part, 1, Len(part) - 1)

Asset_from_bytes(bytes_) ==
    LET amount_bytes == Slice(bytes_, 0, 8)
        asset_precision == bytes_[9]
        unpacked == StructUnpack(8, amount_bytes)
        amount == PyStr(unpacked.value)
        symbol == Symbol_from_bytes(SliceFrom(bytes_, 8))
        name   == SymbolStrName(symbol.value)
        value  == IF asset_precision = 0 THEN amount \o <<32>> \o name
                  ELSE SubSeq(amount, 1, Len(amount) - asset_precision)
                         \o <<46>>
                         \o SliceFrom(amount, asset_precision + 1)
                         \o <<32>> \o name
    IN  IF Len(bytes_) < 9 THEN Raise
        ELSE IF ~unpacked.ok THEN Raise
        ELSE IF ~symbol.ok THEN Raise
        ELSE Asset_new(value)

(***************************************************************************)
(* Bytes and UnixTimestamp.                                                *)
(***************************************************************************)
Bytes_new(v) == Ok(v)
Bytes_bytes(value) == value
Bytes_from_bytes(bytes_) == Bytes_new(bytes_)

\* A datetime is [secs, microsecond]: secs the whole seconds since the epoch
\* (UTC), which is what calendar.timegm and datetime.utcfromtimestamp
\* convert from and to.
UnixTimestamp_new(v) == Ok([secs |-> v.secs, microsecond |-> 0])

\* [ok, value]: Uint32(value=unix_secs) raises outside 0..2^32-1
UnixTimestamp_bytes(value) ==
    LET uint32_secs == Uint32_new(value.secs)
    IN  IF ~uint32_secs.ok THEN Raise ELSE Ok(Uint32_bytes(uint32_secs.value))

UnixTimestamp_from_bytes(bytes_) ==
    LET uint32_secs == Uint32_from_bytes(bytes_)
    IN  IF ~uint32_secs.ok THEN Raise
        ELSE UnixTimestamp_new([secs |-> uint32_secs.value, microsecond |-> 0])


(***************************************************************************)
(* The element types an Array is parameterised by: type_(v), bytes(value), *)
(* type_.from_bytes(bytes_) and len(value) by the name of the class.       *)
(***************************************************************************)
New(type_, v) ==
    CASE type_ = "Bool"          -> Bool_new(v)
      [] type_ = "Int8"          -> Int8_new(v)
      [] type_ = "Uint8"         -> Uint8_new(v)
      [] type_ = "Uint16"        -> Uint16_new(v)
      [] type_ = "Uint32"        -> Uint32_new(v)
      [] type_ = "Uint64"        -> Uint64_new(v)
      [] type_ = "Varuint32"     -> Varuint32_new(v)
      [] type_ = "String"        -> String_new(v)
      [] type_ = "Name"          -> Name_new(v)
      [] type_ = "Symbol"        -> Symbol_new(v)
      [] type_ = "Asset"         -> Asset_new(v)
      [] type_ = "Bytes"         -> Bytes_new(v)
      [] type_ = "UnixTimestamp" -> UnixTimestamp_new(v)

(***************************************************************************)
(* Array: [values, type_], values the tuple of the elements' values.       *)
(***************************************************************************)
\* b"".join(parts), halving the list to keep the recursion shallow
RECURSIVE Concat(_)
Concat(parts) ==
    IF parts = <<>> THEN <<>>
    ELSE IF Len(parts) = 1 THEN parts[1]
    ELSE Concat(SubSeq(parts, 1, Len(parts) \div 2))
           \o Concat(SubSeq(parts, (Len(parts) \div 2) + 1, Len(parts)))

\* the concatenation of a list of [ok, value] byte results; any exception
\* among them propagates
Join(parts) ==
    IF \E i \in 1..Len(parts) : ~parts[i].ok THEN Raise
    ELSE Ok(Concat([i \in 1..Len(parts) |-> parts[i].value]))

\* must_be_subclass_of_eosio and all_must_satisfy_type_value
Array_validated(made, type_) ==
    IF \E i \in 1..Len(made) : ~made[i].ok THEN Raise
    ELSE Ok([values |-> [i \in 1..Len(made) |-> made[i].value],
             type_ |-> type_])

Array_new(values, type_) ==
    Array_validated([i \in 1..Len(values) |-> New(type_, values[i])], type_)

\* bytes(value) by the name of the class: [ok, value], as Asset and
\* UnixTimestamp may raise
BytesOf(type_, value) ==
    CASE type_ = "Bool"          -> Ok(Bool_bytes(value))
      [] type_ = "Int8"          -> Ok(Int8_bytes(value))
      [] type_ = "Uint8"         -> Ok(Uint8_bytes(value))
      [] type_ = "Uint16"        -> Ok(Uint16_bytes(value))
      [] type_ = "Uint32"        -> Ok(Uint32_bytes(value))
      [] type_ = "Uint64"        -> Ok(Uint64_bytes(value))
      [] type_ = "Varuint32"     -> Ok(Varuint32_bytes(value))
      [] type_ = "String"        -> Ok(String_bytes(value))
      [] type_ = "Name"          -> Name_bytes(value)
      [] type_ = "Symbol"        -> Ok(Symbol_bytes(value))
      [] type_ = "Asset"         -> Asset_bytes(value)
      [] type_ = "Bytes"         -> Ok(Bytes_bytes(value))
      [] type_ = "UnixTimestamp" -> UnixTimestamp_bytes(value)

\* Array.__bytes__ over the bytes of its values: the count, then each value
Varuint32_encoded(made) ==
    IF ~made.ok THEN Raise ELSE Ok(Varuint32_bytes(made.value))

Array_join(self, parts) ==
    Join(<<Varuint32_encoded(Varuint32_new(PyInt(Len(self.values))))>> \o parts)

Array_bytes(self) ==
    Array_join(self, [i \in 1..Len(self.values) |->
                        BytesOf(self.type_, self.values[i])])

(***************************************************************************)
(* The elements of an ABI: AbiType, AbiStruct, AbiAction, AbiTable. Their  *)
(* values are dicts, here records; every __bytes__ is [ok, value].         *)
(***************************************************************************)
\* bytes(String(v)) and bytes(Name(v))
String_encoded(str) == IF ~str.ok THEN Raise ELSE Ok(String_bytes(str.value))
StringOf(v) == String_encoded(String_new(v))
Name_encoded(name) == IF ~name.ok THEN Raise ELSE Name_bytes(name.value)
NameOf(v) == Name_encoded(Name_new(v))

\* bytes(Array(type_=String, values=values))
StringArray_bytes(array) ==
    IF ~array.ok THEN Raise
    ELSE Array_join(array.value,
                    [i \in 1..Len(array.value.values) |->
                       Ok(String_bytes(array.value.values[i]))])
StringArrayOf(values) ==
    StringArray_bytes(
        Array_validated([i \in 1..Len(values) |-> String_new(values[i])], "String"))

\* bytes(Array(type_=Bytes, values=field_bytes)), once every entry of
\* field_bytes is built
BytesArrayOf(field_bytes) ==
    IF \E i \in 1..Len(field_bytes) : ~field_bytes[i].ok THEN Raise
    ELSE Array_join([values |-> field_bytes, type_ |-> "Bytes"], field_bytes)

AbiType_bytes(value) ==
    Join(<<StringOf(value.new_type_name), StringOf(value.type)>>)

AbiStruct_bytes(value) ==
    Join(<<StringOf(value.name), StringOf(value.base),
           BytesArrayOf([i \in 1..Len(value.fields) |->
                           Join(<<StringOf(value.fields[i].name),
                                  StringOf(value.fields[i].type)>>)])>>)

AbiAction_bytes(value) ==
    Join(<<NameOf(value.name), StringOf(value.type),
           StringOf(value.ricardian_contract)>>)

AbiTable_bytes(value) ==
    Join(<<NameOf(value.name), StringOf(value.index_type),
           StringArrayOf(value.key_names),
           StringArrayOf(value.key_types), StringOf(value.type)>>)

FromBytes(type_, bytes_) ==
    CASE type_ = "Bool"          -> Bool_from_bytes(bytes_)
      [] type_ = "Int8"          -> Int8_from_bytes(bytes_)
      [] type_ = "Uint8"         -> Uint8_from_bytes(bytes_)
      [] type_ = "Uint16"        -> Uint16_from_bytes(bytes_)
      [] type_ = "Uint32"        -> Uint32_from_bytes(bytes_)
      [] type_ = "Uint64"        -> Uint64_from_bytes(bytes_)
      [] type_ = "Varuint32"     -> Varuint32_from_bytes(bytes_)
      [] type_ = "String"        -> String_from_bytes(bytes_)
      [] type_ = "Name"          -> Name_from_bytes(bytes_)
      [] type_ = "Symbol"        -> Symbol_from_bytes(bytes_)
      [] type_ = "Asset"         -> Asset_from_bytes(bytes_)
      [] type_ = "Bytes"         -> Bytes_from_bytes(bytes_)
      [] type_ = "UnixTimestamp" -> UnixTimestamp_from_bytes(bytes_)

\* EosioType.__len__: the length of bytes(self), [ok, value]
LenOf(bytes_) == IF ~bytes_.ok THEN Raise ELSE Ok(Len(bytes_.value))
EosioType_len(type_, value) == LenOf(BytesOf(type_, value))

\* the for loop of Array.from_bytes at round n, with the values decoded so far
RECURSIVE Array_from_bytes_loop(_, _, _, _, _)
\* bytes_ = bytes_[len(value):] and the next round
Array_from_bytes_advance(bytes_, type_, length, n, values, size) ==
    IF ~size.ok THEN Raise
    ELSE Array_from_bytes_loop(SliceFrom(bytes_, size.value), type_,
                               length, n + 1, values)

\* values.append(value)
Array_from_bytes_append(bytes_, type_, length, n, values, value) ==
    IF ~value.ok THEN Raise
    ELSE Array_from_bytes_advance(bytes_, type_, length, n,
                                  Append(values, value.value),
                                  EosioType_len(type_, value.value))

Array_from_bytes_loop(bytes_, type_, length, n, values) ==
    IF ~PyLess(PyInt(n), length) THEN Array_new(values, type_)
    ELSE Array_from_bytes_append(bytes_, type_, length, n, values,
                                 FromBytes(type_, bytes_))

Array_from_bytes(bytes_, type_) ==
    LET length == Varuint32_from_bytes(bytes_)
    IN  IF ~length.ok THEN Raise
        ELSE Array_from_bytes_loop(
                 SliceFrom(bytes_, Len(Varuint32_bytes(length.value))),
                 type_, length.value, 0, <<>>)

(***************************************************************************)
(* Hex helpers and Wasm.                                                   *)
(***************************************************************************)
HexDigits == <<48, 49, 50, 51, 52, 53, 54, 55, 56, 57, 97, 98, 99, 100, 101, 102>>

\* binascii.hexlify(bin).decode("utf-8")
bin_to_hex(bin) ==
    [i \in 1..(2 * Len(bin)) |->
        IF i % 2 = 1 THEN HexDigits[(bin[(i + 1) \div 2] \div 16) + 1]
        ELSE HexDigits[(bin[i \div 2] % 16) + 1]]

IsHexDigit(c) == ToDecimal(c) >= 0 \/ c \in 97..102 \/ c \in 65..70
HexVal(c) == IF ToDecimal(c) >= 0 THEN ToDecimal(c)
             ELSE IF c \in 97..102 THEN c - 87 ELSE c - 55

\* int(v, base=16) for a str v of at most two characters
PyIntOfHex(v) ==
    LET w    == StripNum(v)
        sign == w # <<>> /\ w[1] \in {43, 45}
        body == IF sign THEN Tail(w) ELSE w
        n    == IF Len(body) = 1 THEN HexVal(body[1])
                ELSE 16 * HexVal(body[1]) + HexVal(body[2])
    IN  IF body = <<>> \/ \E i \in 1..Len(body) : ~IsHexDigit(body[i]) THEN Raise
        ELSE Ok(PyInt(IF sign /\ w[1] = 45 THEN -n ELSE n))

\* Array(type_=Uint8, values=uint8_list) of the parsed pairs
Uint8_array(uint8_list) ==
    IF \E i \in 1..Len(uint8_list) : ~uint8_list[i].ok THEN Raise
    ELSE Array_validated([i \in 1..Len(uint8_list) |->
                             Uint8_new(uint8_list[i].value)], "Uint8")

\* hex_to_uint8_array reading one hex digit, not one pair, per element
hex_to_uint8_array_per_digit(hex_string) ==
    IF Len(hex_string) % 2 # 0 THEN Raise
    ELSE Uint8_array([i \in 1..Len(hex_string) |->
                        PyIntOfHex(SubSeq(hex_string, i, i))])

hex_to_uint8_array(hex_string) ==
    IF Len(hex_string) % 2 # 0 THEN Raise
    ELSE Uint8_array([i \in 1..(Len(hex_string) \div 2) |->
                        PyIntOfHex(SubSeq(hex_string, 2 * i - 1, 2 * i))])

\* ("00" + format(v, "x"))[-2:] for each value
uint8_list_to_hex(uint8_list) ==
    [i \in 1..(2 * Len(uint8_list)) |->
        IF i % 2 = 1 THEN HexDigits[(Small(uint8_list[(i + 1) \div 2]) \div 16) + 1]
        ELSE HexDigits[(Small(uint8_list[i \div 2]) % 16) + 1]]

\* binascii.unhexlify(hexcode.encode("utf-8")) of an even run of hex digits
hex_to_bin(hexcode) ==
    [i \in 1..(Len(hexcode) \div 2) |->
        16 * HexVal(hexcode[2 * i - 1]) + HexVal(hexcode[2 * i])]

Wasm_new(v) == Ok(v)

\* bytes(uint8_array)
Uint8_array_bytes(uint8_array) ==
    IF ~uint8_array.ok THEN Raise
    ELSE Array_join(uint8_array.value,
                    [i \in 1..Len(uint8_array.value.values) |->
                       Ok(Uint8_bytes(uint8_array.value.values[i]))])

Wasm_bytes(value) == Uint8_array_bytes(hex_to_uint8_array(bin_to_hex(value)))

\* cls(value=hex_to_bin(uint8_list_to_hex(uint8_list)))
Wasm_of_uint8_array(uint8_array) ==
    IF ~uint8_array.ok THEN Raise
    ELSE Wasm_new(hex_to_bin(uint8_list_to_hex(uint8_array.value.values)))

Wasm_from_bytes(bytes_) == Wasm_of_uint8_array(Array_from_bytes(bytes_, "Uint8"))


(***************************************************************************)
(* Abi. The value is the ABI mapping (a JSON object), here a function      *)
(* from its keys to their values: version a str, the sections lists of     *)
(* records.                                                                *)
(***************************************************************************)
\* the keys AbiSchema accepts ("comment" is read from "____comment") and
\* those it declares without a default
AbiSchemaKeys ==
    {"____comment", "version", "types", "structs", "actions", "tables",
     "ricardian_clauses", "abi_extensions", "variants", "action_results",
     "kv_tables"}
AbiSchemaRequired == {"version", "types", "structs", "actions", "tables"}

\* AbiSchema with types, structs, actions and tables declared with a default
\* (an empty list) instead of required
AbiSchema_new_optional(json_data) ==
    IF ~(DOMAIN json_data \subseteq AbiSchemaKeys) THEN Raise
    ELSE IF ~("version" \in DOMAIN json_data) THEN Raise
    ELSE Ok([k \in DOMAIN json_data \cup AbiSchemaRequired |->
               IF k \in DOMAIN json_data THEN json_data[k] ELSE <<>>])

\* AbiSchema(**json_data): extra = "forbid", required fields
AbiSchema_new(json_data) ==
    IF ~(DOMAIN json_data \subseteq AbiSchemaKeys) THEN Raise
    ELSE IF ~(AbiSchemaRequired \subseteq DOMAIN json_data) THEN Raise
    ELSE Ok(json_data)

\* Array(type_=type_, values=list) if list else String("")
\* bytes(Array(type_=type_, values=list) if list else String("")), parts
\* the bytes of the entries
SectionOf(list, type_, parts) ==
    IF list # <<>> THEN Array_join([values |-> list, type_ |-> type_], parts)
    ELSE StringOf(<<>>)

\* import_abi_data: the bytes of each component, in the order of
\* abi_components
\* abi_components with structs listed before types
abi_components_swapped(abi_dict) ==
    IF ~abi_dict.ok THEN Raise
    ELSE IF ~String_new(abi_dict.value.version).ok THEN Raise
    ELSE Ok(<<StringOf(abi_dict.value.version),
              SectionOf(abi_dict.value.structs, "AbiStruct",
                        [i \in 1..Len(abi_dict.value.structs) |->
                           AbiStruct_bytes(abi_dict.value.structs[i])]),
              SectionOf(abi_dict.value.types, "AbiType",
                        [i \in 1..Len(abi_dict.value.types) |->
                           AbiType_bytes(abi_dict.value.types[i])]),
              SectionOf(abi_dict.value.actions, "AbiAction",
                        [i \in 1..Len(abi_dict.value.actions) |->
                           AbiAction_bytes(abi_dict.value.actions[i])]),
              SectionOf(abi_dict.value.tables, "AbiTable",
                        [i \in 1..Len(abi_dict.value.tables) |->
                           AbiTable_bytes(abi_dict.value.tables[i])]),
              StringOf(<<>>), StringOf(<<>>), StringOf(<<>>),
              StringOf(<<>>), StringOf(<<>>), StringOf(<<>>)>>)

\* String(abi_dict.version) is made, and may raise, in import_abi_data
abi_components_of(abi_dict) ==
    IF ~abi_dict.ok THEN Raise
    ELSE IF ~String_new(abi_dict.value.version).ok THEN Raise
    ELSE Ok(<<StringOf(abi_dict.value.version),
              SectionOf(abi_dict.value.types, "AbiType",
                        [i \in 1..Len(abi_dict.value.types) |->
                           AbiType_bytes(abi_dict.value.types[i])]),
              SectionOf(abi_dict.value.structs, "AbiStruct",
                        [i \in 1..Len(abi_dict.value.structs) |->
                           AbiStruct_bytes(abi_dict.value.structs[i])]),
              SectionOf(abi_dict.value.actions, "AbiAction",
                        [i \in 1..Len(abi_dict.value.actions) |->
                           AbiAction_bytes(abi_dict.value.actions[i])]),
              SectionOf(abi_dict.value.tables, "AbiTable",
                        [i \in 1..Len(abi_dict.value.tables) |->
                           AbiTable_bytes(abi_dict.value.tables[i])]),
              StringOf(<<>>),      \* ricardian_clauses
              StringOf(<<>>),      \* error_messages
              StringOf(<<>>),      \* abi_extensions
              StringOf(<<>>),      \* variants
              StringOf(<<>>),      \* action_results
              StringOf(<<>>)>>)    \* kv_tables
import_abi_data(json_data) == abi_components_of(AbiSchema_new(json_data))

Hexlified(bin) == IF ~bin.ok THEN Raise ELSE Ok(bin_to_hex(bin.value))
abi_bin_to_hex(abi_components) == Hexlified(Join(abi_components))

Abi_new(v) == Ok(v)

\* the hex text Abi.__bytes__ passes to hex_to_uint8_array
Abi_hexcode_of(abi_components) ==
    IF ~abi_components.ok THEN Raise ELSE abi_bin_to_hex(abi_components.value)
Abi_hexcode(value) == Abi_hexcode_of(import_abi_data(value))

\* hex_to_uint8_array(hexcode) and bytes(uint8_array)
Abi_bytes_of(hexcode) ==
    IF ~hexcode.ok THEN Raise
    ELSE Uint8_array_bytes(hex_to_uint8_array(hexcode.value))
Abi_bytes(value) == Abi_bytes_of(Abi_hexcode(value))

\* cls(value=bytes_): bytes are no dict, but dict(b"") is {}
Abi_from_bytes(bytes_) == IF bytes_ = <<>> THEN Abi_new(<<>>) ELSE Raise


(***************************************************************************)
(* The classes with a constructor, __bytes__ and from_bytes, by name:      *)
(* the element types, Array (of element type elt), Wasm and Abi.           *)
(***************************************************************************)
Construct_(type_, elt_, v) ==
    CASE type_ = "Array" -> Array_new(v, elt_)
      [] type_ = "Wasm"  -> Wasm_new(v)
      [] type_ = "Abi"   -> Abi_new(v)
      [] OTHER           -> New(type_, v)

Encode_(type_, value) ==
    CASE type_ = "Array" -> Array_bytes(value)
      [] type_ = "Wasm"  -> Wasm_bytes(value)
      [] type_ = "Abi"   -> Abi_bytes(value)
      [] OTHER           -> BytesOf(type_, value)

Decode_(type_, elt_, bytes_) ==
    CASE type_ = "Array" -> Array_from_bytes(bytes_, elt_)
      [] type_ = "Wasm"  -> Wasm_from_bytes(bytes_)
      [] type_ = "Abi"   -> Abi_from_bytes(bytes_)
      [] OTHER           -> FromBytes(type_, bytes_)

\* the hex text that Wasm.__bytes__ and Abi.__bytes__ build on their way
Hexcode_(type_, value) ==
    CASE type_ = "Wasm" -> Ok(bin_to_hex(value))
      [] type_ = "Abi"  -> Abi_hexcode(value)
      [] OTHER          -> Ok(<<>>)

(***************************************************************************)
(* The type registry.                                                      *)
(***************************************************************************)
\* the class statements of the module in the order in which they are
\* executed when it is loaded: the class, its name as text, its base class
\* and the line of the statement
ModuleClasses ==
    <<
       [class_ |-> "EosioType", name |-> <<69, 111, 115, 105, 111, 84, 121, 112, 101>>,
        base |-> "BaseModel", line |-> 18],
       [class_ |-> "UnixTimestamp", name |-> <<85, 110, 105, 120, 84, 105, 109, 101, 115, 116, 97, 109, 112>>,
        base |-> "EosioType", line |-> 49],
       [class_ |-> "Bool", name |-> <<66, 111, 111, 108>>,
        base |-> "EosioType", line |-> 77],
       [class_ |-> "String", name |-> <<83, 116, 114, 105, 110, 103>>,
        base |-> "EosioType", line |-> 88],
       [class_ |-> "Asset", name |-> <<65, 115, 115, 101, 116>>,
        base |-> "EosioType", line |-> 117],
       [class_ |-> "Symbol", name |-> <<83, 121, 109, 98, 111, 108>>,
        base |-> "EosioType", line |-> 287],
       [class_ |-> "Bytes", name |-> <<66, 121, 116, 101, 115>>,
        base |-> "EosioType", line |-> 356],
       [class_ |-> "Array", name |-> <<65, 114, 114, 97, 121>>,
        base |-> "EosioType", line |-> 367],
       [class_ |-> "Name", name |-> <<78, 97, 109, 101>>,
        base |-> "EosioType", line |-> 411],
       [class_ |-> "Int8", name |-> <<73, 110, 116, 56>>,
        base |-> "EosioType", line |-> 486],
       [class_ |-> "Uint8", name |-> <<85, 105, 110, 116, 56>>,
        base |-> "EosioType", line |-> 499],
       [class_ |-> "Uint16", name |-> <<85, 105, 110, 116, 49, 54>>,
        base |-> "EosioType", line |-> 512],
       [class_ |-> "Uint32", name |-> <<85, 105, 110, 116, 51, 50>>,
        base |-> "EosioType", line |-> 525],
       [class_ |-> "Uint64", name |-> <<85, 105, 110, 116, 54, 52>>,
        base |-> "EosioType", line |-> 538],
       [class_ |-> "Varuint32", name |-> <<86, 97, 114, 117, 105, 110, 116, 51, 50>>,
        base |-> "EosioType", line |-> 551],
       [class_ |-> "AbiSchema", name |-> <<65, 98, 105, 83, 99, 104, 101, 109, 97>>,
        base |-> "BaseModel", line |-> 612],
       [class_ |-> "Abi", name |-> <<65, 98, 105>>,
        base |-> "EosioType", line |-> 631],
       [class_ |-> "AbiType", name |-> <<65, 98, 105, 84, 121, 112, 101>>,
        base |-> "EosioType", line |-> 713],
       [class_ |-> "AbiStruct", name |-> <<65, 98, 105, 83, 116, 114, 117, 99, 116>>,
        base |-> "EosioType", line |-> 726],
       [class_ |-> "AbiAction", name |-> <<65, 98, 105, 65, 99, 116, 105, 111, 110>>,
        base |-> "EosioType", line |-> 746],
       [class_ |-> "AbiTable", name |-> <<65, 98, 105, 84, 97, 98, 108, 101>>,
        base |-> "EosioType", line |-> 761],
       [class_ |-> "Wasm", name |-> <<87, 97, 115, 109>>,
        base |-> "EosioType", line |-> 787]
    >>

\* the line of the statement _all_types = _get_all_types()
RegistryLine == 598

\* issubclass(class_, EosioType) and class_ is not EosioType
is_eostype(c) == c.base = "EosioType" /\ c.class_ # "EosioType"

\* _get_all_types() called at the given line: the names in the module's
\* dictionary are those of the class statements executed before it
get_all_types(line) ==
    LET classes == {i \in 1..Len(ModuleClasses) :
                       ModuleClasses[i].line < line /\ is_eostype(ModuleClasses[i])}
    IN  [key \in {ToLower(ModuleClasses[i].name) : i \in classes} |->
            ModuleClasses[CHOOSE i \in classes :
                              ToLower(ModuleClasses[i].name) = key].class_]

\* from_string(type_) on the registry: the class of the lower-cased name,
\* ValueError when the registry has no such key
from_string(registry, type_) ==
    IF ToLower(type_) \in DOMAIN registry
    THEN Ok(registry[ToLower(type_)])
    ELSE Raise

(***************************************************************************)
(* Bounds of the model and the inputs drawn within them.                   *)
(***************************************************************************)
MaxSmallInt == 300      \* Varuint32 is tried on every n in -1..MaxSmallInt
MaxStrLen == 2          \* String values up to this length
MaxNameLen == 3         \* Name values up to this length, and the fixed long ones
MaxIntDigits == 2       \* Asset: digits before the decimal point
MaxFracDigits == 2      \* Asset: digits after the decimal point
MaxBlobLen == 2         \* Bytes and Wasm values up to this length
MaxArrayLen == 2        \* Array values up to this length
MaxSectionLen == 1      \* entries per section of an ABI
MaxTrail == 1           \* bytes appended to an encoding before it is decoded
MaxWireLen == 3         \* bytes of a buffer handed to from_bytes as it is

SeqsUpTo(S, n) == UNION {[1..k -> S] : k \in 0..n}
Rep(c, n) == [i \in 1..n |-> c]

BoolInputs == BOOLEAN
Int8Inputs == {PyInt(n) : n \in {-129, -128, -1, 0, 1, 127, 128}}
Uint8Inputs == {PyInt(n) : n \in {-1, 0, 1, 2, 127, 128, 255, 256}}
Uint16Inputs == {PyInt(n) : n \in {-1, 0, 1, 255, 256, 65535, 65536}}
Uint32Inputs ==
    {PyInt(n) : n \in {-1, 0, 1, 65536, 2147483647}}
        \cup {PyNat(Dec(<<4, 2, 9, 4, 9, 6, 7, 2, 9, 5>>)),
              PyNat(Dec(<<4, 2, 9, 4, 9, 6, 7, 2, 9, 6>>))}
Uint64Inputs ==
    {PyInt(n) : n \in {-1, 0, 1, 258, 2147483647}}
        \cup {PyNat(Shl(<<1>>, 32)), PyNat(Rep(1, 64)), PyNat(Shl(<<1>>, 64))}
Varuint32Inputs ==
    {PyInt(n) : n \in -1..MaxSmallInt}
        \cup {PyInt(n) : n \in {16383, 16384, 2097151, 2097152, 268435455,
                                268435456, 2147483647}}
        \cup {PyNat(Rep(1, 32)), PyNat(Shl(<<1>>, 32)),
              PyNat(Dec(<<2, 0, 9, 8, 9, 3, 7, 1, 9, 7, 8>>)),
              PyNat(Dec(<<2, 0, 9, 8, 9, 3, 7, 1, 9, 7, 9>>)),
              PyNat(Dec(<<2, 0, 9, 8, 9, 3, 7, 1, 9, 8, 0>>)),
              PyNat(Rep(1, 35))}

\* "a", "Z", " " and, refused, the two-byte characters
StringInputs ==
    SeqsUpTo({97, 90, 32}, MaxStrLen) \cup {Rep(97, 128), <<233>>, <<97, 8364>>}

\* "eosio", "eosio.token", 12 and 13 characters, "a.b" and "ab", and refused
\* ones
NameInputs ==
    SeqsUpTo({46, 97, 122, 53}, MaxNameLen)
        \cup {<<101, 111, 115, 105, 111>>,
              <<101, 111, 115, 105, 111, 46, 116, 111, 107, 101, 110>>,
              <<46, 97, 46, 46, 98, 46>>,
              Rep(122, 12), Rep(122, 12) \o <<106>>, Rep(122, 12) \o <<97>>,
              Rep(122, 12) \o <<46>>, Rep(46, 12) \o <<106>>,
              <<46>> \o Rep(53, 11) \o <<102>>,
              Rep(122, 12) \o <<107>>, Rep(122, 12) \o <<53>>, Rep(97, 14),
              <<97, 46, 98>>, <<97, 98>>,
              <<65>>, <<97, 10>>, <<97, 32>>}

CodeInputs == {<<65>>, <<87, 65, 88>>, <<65, 66, 67, 68, 69, 70, 71>>}
SymbolInputs ==
    {PyStr(PyInt(p)) \o <<44>> \o c :
        p \in -1..17, c \in CodeInputs \cup {<<>>, Rep(65, 8), <<119, 97, 120>>}}
        \cup {<<48, 56, 44, 87, 65, 88>>, <<87, 65, 88>>, <<44, 87, 65, 88>>,
              <<52, 44, 87, 65, 88, 44, 66>>}

\* "<int digits>[.<frac digits>] <CODE>" and a few written out: 5.00000000 WAX,
\* 123.45 AB, 1.5 ABCDEFGH, 1 5 WAX, -1 WAX, -0 WAX, 1e5 WAX, nan WAX,
\* 18446744073709551615 WAX, 18446744073709550591 WAX,
\* 1844674407370955.00000 WAX, 0.00000000000000001 W, " 7.25 X "
AssetInputs ==
    {i \o f \o <<32>> \o c :
        i \in SeqsUpTo({48, 49, 53}, MaxIntDigits),
        f \in {<<>>} \cup {<<46>> \o d : d \in SeqsUpTo({48, 53}, MaxFracDigits)},
        c \in {<<87, 65, 88>>, <<65, 66, 67, 68, 69, 70, 71>>}}
        \cup {<<53, 46>> \o Rep(48, 8) \o <<32, 87, 65, 88>>,
              <<49, 50, 51, 46, 52, 53, 32, 65, 66>>,
              <<49, 46, 53, 32>> \o Rep(65, 8),
              <<49, 32, 53, 32, 87, 65, 88>>,
              <<45, 49, 32, 87, 65, 88>>,
              <<45, 48, 32, 87, 65, 88>>,
              <<49, 101, 53, 32, 87, 65, 88>>,
              <<110, 97, 110, 32, 87, 65, 88>>,
              <<49, 56, 52, 52, 54, 55, 52, 52, 48, 55, 51, 55, 48, 57, 53, 53,
                49, 54, 49, 53, 32, 87, 65, 88>>,
              <<49, 56, 52, 52, 54, 55, 52, 52, 48, 55, 51, 55, 48, 57, 53, 53,
                48, 53, 57, 49, 32, 87, 65, 88>>,
              <<49, 56, 52, 52, 54, 55, 52, 52, 48, 55, 51, 55, 48, 57, 53, 53,
                46, 48, 48, 48, 48, 48, 32, 87, 65, 88>>,
              <<48, 46>> \o Rep(48, 16) \o <<49, 32, 87>>,
              <<32, 55, 46, 50, 53, 32, 88, 32>>}

BlobInputs == SeqsUpTo({0, 65, 255}, MaxBlobLen)
WasmInputs == BlobInputs \cup {<<0, 1, 171, 255>>}

\* buffers handed to from_bytes as they are: short and long varuints, with
\* and without a last byte, minimal and not, and string payloads after them
WireTypes == {"Varuint32", "String"}
WireInputs ==
    SeqsUpTo({0, 1, 2, 97, 128, 129}, MaxWireLen)
        \cup {Rep(128, 8), Rep(255, 9), Rep(128, 8) \o <<0>>, Rep(128, 9) \o <<1>>}

\* the names given to from_string: every class of the module as written, in
\* lower case, in upper case and with the case of every letter swapped, and
\* "foo", "" and "String " with a space after it
ToUpper(v) == [i \in 1..Len(v) |-> IF v[i] \in 97..122 THEN v[i] - 32 ELSE v[i]]
SwapCase(v) ==
    [i \in 1..Len(v) |-> IF v[i] \in 97..122 THEN v[i] - 32
                         ELSE IF v[i] \in 65..90 THEN v[i] + 32 ELSE v[i]]
TypeNameInputs ==
    UNION {{ModuleClasses[i].name, ToLower(ModuleClasses[i].name),
            ToUpper(ModuleClasses[i].name), SwapCase(ModuleClasses[i].name)} :
              i \in 1..Len(ModuleClasses)}
        \cup {<<102, 111, 111>>, <<>>, <<83, 116, 114, 105, 110, 103, 32>>}

UnixTimestampInputs ==
    {[secs |-> t, microsecond |-> u] :
        t \in {PyInt(-1), PyInt(0), PyInt(1), PyInt(1000000000),
               PyNat(Rep(1, 32)), PyNat(Shl(<<1>>, 32))},
        u \in {0, 500000}}

\* the values an Array of each element type is built from
ElementInputs(elt_) ==
    CASE elt_ = "Bool"          -> BOOLEAN
      [] elt_ = "Int8"          -> {PyInt(-128), PyInt(-1), PyInt(127)}
      [] elt_ = "Uint8"         -> {PyInt(1), PyInt(2), PyInt(255)}
      [] elt_ = "Uint16"        -> {PyInt(0), PyInt(258), PyInt(65535)}
      [] elt_ = "Uint32"        -> {PyInt(0), PyInt(65536), PyNat(Rep(1, 32))}
      [] elt_ = "Uint64"        -> {PyInt(1), PyInt(2), PyNat(Rep(1, 64))}
      [] elt_ = "Varuint32"     -> {PyInt(0), PyInt(127), PyInt(128)}
      [] elt_ = "String"        -> {<<>>, <<97>>, <<98, 99>>}
      [] elt_ = "Name"          -> {<<97>>, <<98>>, <<97, 46, 98>>}
      [] elt_ = "Symbol"        -> {<<52, 44, 87, 65, 88>>,
                                    <<48, 44, 65, 66, 67, 68, 69, 70, 71>>}
      [] elt_ = "Asset"         -> {<<49, 48, 48, 32, 69, 79, 83>>,
                                    <<49, 50, 46, 51, 32, 87, 65, 88>>}
      [] elt_ = "Bytes"         -> {<<>>, <<7>>}
      [] elt_ = "UnixTimestamp" -> {[secs |-> PyInt(0), microsecond |-> 0],
                                    [secs |-> PyInt(86400), microsecond |-> 0]}

ElementTypes ==
    {"Bool", "Int8", "Uint8", "Uint16", "Uint32", "Uint64", "Varuint32",
     "String", "Name", "Symbol", "Asset", "Bytes", "UnixTimestamp"}

\* the entries of the sections of an ABI: type "t" = "name", struct "s" with
\* the field a: name, action "act" of type "s", table "tab"
AbiTypeInputs == {[new_type_name |-> <<116>>, type |-> <<110, 97, 109, 101>>]}
AbiStructInputs ==
    {[name |-> <<115>>, base |-> <<>>,
      fields |-> <<[name |-> <<97>>, type |-> <<110, 97, 109, 101>>]>>]}
AbiActionInputs ==
    {[name |-> <<97, 99, 116>>, type |-> <<115>>, ricardian_contract |-> <<>>]}
AbiTableInputs ==
    {[name |-> <<116, 97, 98>>, index_type |-> <<105, 54, 52>>,
      key_names |-> <<<<107>>>>, key_types |-> <<<<110, 97, 109, 101>>>>,
      type |-> <<115>>]}
\* "eosio::abi/1.1"
AbiVersion == <<101, 111, 115, 105, 111, 58, 58, 97, 98, 105, 47, 49, 46, 49>>
AbiKeySets ==
    {r \cup x : r \in SUBSET AbiSchemaRequired,
                x \in {{}, {"____comment"}, {"kv_tables"}, {"error_messages"}}}

(***************************************************************************)
(* The state machine: a value of one class is constructed from a native    *)
(* input, encoded, and its encoding (possibly followed by the bytes of a   *)
(* next field) decoded.                                                    *)
(***************************************************************************)
VARIABLES
    all_types,  \* the registry: the class of each lower-cased name
    typ,        \* the class
    elt,        \* the element type of an Array, "" otherwise
    arg,        \* the native value given to the constructor or to from_string
    pc,         \* "start", "made", "rejected", "encoded", "failed", "decoded",
                \* "wire", "read", "name", "resolved"
    obj,        \* [ok, value]: the constructed instance's value
    hexcode,    \* [ok, value]: the hex text built by Wasm and Abi
    buf,        \* the bytes of the instance, then the trailing bytes
    trail,      \* the trailing bytes appended to buf
    out         \* [ok, value]: what from_bytes(buf) or from_string(arg) returned

vars == <<all_types, typ, elt, arg, pc, obj, hexcode, buf, trail, out>>

Init ==
    /\ all_types = get_all_types(RegistryLine)
    /\ pc \in {"start", "wire", "name"}
    /\ obj = Raise
    /\ hexcode = Raise
    /\ trail = <<>>
    /\ out = Raise
    /\ pc = "start" => buf = <<>>
    /\ \/ /\ pc = "wire"
          /\ typ \in WireTypes
          /\ elt = ""
          /\ arg = <<>>
          /\ buf \in WireInputs
       \/ /\ pc = "name"
          /\ typ = "type"
          /\ elt = ""
          /\ arg \in TypeNameInputs
          /\ buf = <<>>
       \/ pc = "start" /\ typ = "Bool" /\ elt = "" /\ arg \in BoolInputs
       \/ pc = "start" /\ typ = "Int8" /\ elt = "" /\ arg \in Int8Inputs
       \/ pc = "start" /\ typ = "Uint8" /\ elt = "" /\ arg \in Uint8Inputs
       \/ pc = "start" /\ typ = "Uint16" /\ elt = "" /\ arg \in Uint16Inputs
       \/ pc = "start" /\ typ = "Uint32" /\ elt = "" /\ arg \in Uint32Inputs
       \/ pc = "start" /\ typ = "Uint64" /\ elt = "" /\ arg \in Uint64Inputs
       \/ pc = "start" /\ typ = "Varuint32" /\ elt = "" /\ arg \in Varuint32Inputs
       \/ pc = "start" /\ typ = "String" /\ elt = "" /\ arg \in StringInputs
       \/ pc = "start" /\ typ = "Name" /\ elt = "" /\ arg \in NameInputs
       \/ pc = "start" /\ typ = "Symbol" /\ elt = "" /\ arg \in SymbolInputs
       \/ pc = "start" /\ typ = "Asset" /\ elt = "" /\ arg \in AssetInputs
       \/ pc = "start" /\ typ = "Bytes" /\ elt = "" /\ arg \in BlobInputs
       \/ pc = "start" /\ typ = "UnixTimestamp" /\ elt = "" /\ arg \in UnixTimestampInputs
       \/ pc = "start" /\ typ = "Wasm" /\ elt = "" /\ arg \in WasmInputs
       \/ /\ pc = "start" /\ typ = "Array"
          /\ elt \in ElementTypes
          /\ arg \in SeqsUpTo(ElementInputs(elt), MaxArrayLen)
                      \cup (IF elt = "Uint8"
                            THEN {<<PyInt(1), PyInt(2), PyInt(255)>>} ELSE {})
       \/ /\ pc = "start" /\ typ = "Abi"
          /\ elt = ""
          /\ \E keys \in AbiKeySets,
                types \in SeqsUpTo(AbiTypeInputs, MaxSectionLen),
                structs \in SeqsUpTo(AbiStructInputs, MaxSectionLen),
                actions \in SeqsUpTo(AbiActionInputs, MaxSectionLen),
                tables \in SeqsUpTo(AbiTableInputs, MaxSectionLen) :
                arg = [k \in keys |->
                         CASE k = "version" -> AbiVersion
                           [] k = "types"   -> types
                           [] k = "structs" -> structs
                           [] k = "actions" -> actions
                           [] k = "tables"  -> tables
                           [] OTHER         -> <<>>]

\* String.from_bytes or Varuint32.from_bytes of a buffer that came from
\* elsewhere
Receive ==
    /\ pc = "wire"
    /\ out' = IF typ = "String" THEN String_from_bytes(buf)
              ELSE Varuint32_from_bytes(buf)
    /\ pc' = "read"
    /\ UNCHANGED <<all_types, typ, elt, arg, obj, hexcode, buf, trail>>

\* from_string(arg)
Lookup ==
    /\ pc = "name"
    /\ out' = from_string(all_types, arg)
    /\ pc' = "resolved"
    /\ UNCHANGED <<all_types, typ, elt, arg, obj, hexcode, buf, trail>>

\* the constructor: validation
Construct ==
    /\ pc = "start"
    /\ obj' = Construct_(typ, elt, arg)
    /\ pc' = IF obj'.ok THEN "made" ELSE "rejected"
    /\ UNCHANGED <<all_types, typ, elt, arg, hexcode, buf, trail, out>>

\* bytes(instance)
Encode ==
    /\ pc = "made"
    /\ \E bytes_ \in {Encode_(typ, obj.value)} :
          /\ buf' = bytes_.value
          /\ pc' = IF bytes_.ok THEN "encoded" ELSE "failed"
    /\ hexcode' = Hexcode_(typ, obj.value)
    /\ UNCHANGED <<all_types, typ, elt, arg, obj, trail, out>>

\* the buffer goes on with a byte of the next field
Trail ==
    /\ pc = "encoded"
    /\ Len(trail) < MaxTrail
    /\ \E b \in {0, 65} :
          /\ buf' = Append(buf, b)
          /\ trail' = Append(trail, b)
    /\ UNCHANGED <<all_types, typ, elt, arg, pc, obj, hexcode, out>>

\* cls.from_bytes(buf)
Decode ==
    /\ pc = "encoded"
    /\ out' = Decode_(typ, elt, buf)
    /\ pc' = "decoded"
    /\ UNCHANGED <<all_types, typ, elt, arg, obj, hexcode, buf, trail>>

Next == Construct \/ Encode \/ Trail \/ Decode \/ Receive \/ Lookup

Spec == Init /\ [][Next]_vars


(***************************************************************************)
(* The claims. A value that reached "decoded" was accepted by its          *)
(* constructor and encoded without an exception; trail = <<>> says the     *)
(* buffer decoded is exactly bytes(value).                                 *)
(***************************************************************************)
\* the bytes of the instance, without the trailing ones
Encoded == SubSeq(buf, 1, Len(buf) - Len(trail))

\* "5.00000000 WAX"
FiveWax == <<53, 46>> \o Rep(48, 8) \o <<32, 87, 65, 88>>

\* C1: every valid Asset string with a decimal point and 1..16 fractional
\* digits (written without padding: no surrounding blanks, a first digit
\* that is not 0) decodes from its own bytes to the same string.
C1_AssetRoundTrip ==
    (/\ typ = "Asset" /\ pc = "decoded" /\ trail = <<>>
     /\ arg = Strip(arg) /\ arg[1] \in 49..57 /\ IndexOf(arg, 46) # 0
     /\ Asset_get_precision(arg) \in 1..16)
        => (out.ok /\ out.value = arg)

\* "5.00000000 WAX" was encoded to amount 500000000, precision 8, WAX, and
\* decoding those bytes raised
C1_Witness ==
    /\ typ = "Asset" /\ arg = FiveWax /\ pc = "decoded" /\ trail = <<>>
    /\ buf = <<0, 101, 205, 29, 0, 0, 0, 0, 8, 87, 65, 88, 0, 0, 0, 0>>
    /\ ~out.ok

\* the element types C2 names
C2Types ==
    {"Bool", "Int8", "Uint8", "Uint16", "Uint32", "Uint64", "Varuint32",
     "Name", "String"}

\* C2: the bytes of an Array of one of the nine element types are the
\* Varuint32 count and then the encodings of the elements in order, and
\* decoding them succeeds with the same elements in the same order.
C2_ArrayRoundTrip ==
    (typ = "Array" /\ elt \in C2Types /\ pc = "decoded" /\ trail = <<>>)
        => /\ buf = Varuint32_bytes(PyInt(Len(obj.value.values)))
                      \o Concat([i \in 1..Len(obj.value.values) |->
                                   BytesOf(elt, obj.value.values[i]).value])
           /\ out.ok
           /\ out.value.values = obj.value.values

\* an Array of the two Uint64 values 1 and 2 was encoded to its 17 bytes and
\* decoding them raised
C2_Witness ==
    /\ typ = "Array" /\ elt = "Uint64" /\ arg = <<PyInt(1), PyInt(2)>>
    /\ pc = "decoded" /\ trail = <<>> /\ Len(buf) = 17
    /\ ~out.ok

\* the classes C3 names
C3Types == ElementTypes \cup {"Array"}

\* C3: decoding bytes(v) followed by trailing bytes succeeds and yields what
\* decoding bytes(v) alone yields.
C3_TrailingBytes ==
    (typ \in C3Types /\ pc = "decoded" /\ trail # <<>>)
        => /\ out.ok
           /\ Decode_(typ, elt, Encoded).ok
           /\ out.value = Decode_(typ, elt, Encoded).value

\* Uint64(1) followed by one more byte did not decode, while its own eight
\* bytes do
C3_Witness ==
    /\ typ = "Uint64" /\ arg = PyInt(1) /\ pc = "decoded" /\ Len(trail) = 1
    /\ Decode_(typ, elt, Encoded).ok
    /\ ~out.ok

\* 20989371979
Varuint32Max == PyNat(Dec(<<2, 0, 9, 8, 9, 3, 7, 1, 9, 7, 9>>))

\* the little-endian base-128 form of a natural number given by its bits:
\* as many groups of 7 bits as the number needs (one for 0), least
\* significant first, 128 added to every group but the last
Base128(bits) ==
    LET groups == Max(1, (Len(bits) + 6) \div 7)
    IN  [g \in 1..groups |->
            Bit(bits, 7 * g - 6) + 2 * Bit(bits, 7 * g - 5)
              + 4 * Bit(bits, 7 * g - 4) + 8 * Bit(bits, 7 * g - 3)
              + 16 * Bit(bits, 7 * g - 2) + 32 * Bit(bits, 7 * g - 1)
              + 64 * Bit(bits, 7 * g)
              + (IF g < groups THEN 128 ELSE 0)]

\* C4: Varuint32 accepts exactly the integers 0..20989371979; its bytes are
\* the little-endian base-128 form of the value (0 -> 00, 127 -> 7F,
\* 128 -> 80 01); decoding its bytes gives the value back.
C4_Varuint32Codec ==
    (typ = "Varuint32" /\ pc \notin {"wire", "read"}) =>
        /\ pc # "start" =>
              (pc = "rejected" <=> (PyLess(arg, PyInt(0)) \/ PyLess(Varuint32Max, arg)))
        /\ pc # "failed"
        /\ pc \in {"encoded", "decoded"} =>
              /\ Encoded = Base128(arg.mag)
              /\ arg = PyInt(0) => Encoded = <<0>>
              /\ arg = PyInt(127) => Encoded = <<127>>
              /\ arg = PyInt(128) => Encoded = <<128, 1>>
        /\ (pc = "decoded" /\ trail = <<>>) => (out.ok /\ out.value = arg)

\* 20989371979 was encoded to CB CC C1 98 4E and decoded to itself
C4_Witness ==
    /\ typ = "Varuint32" /\ arg = Varuint32Max /\ pc = "decoded" /\ trail = <<>>
    /\ buf = <<203, 204, 193, 152, 78>>
    /\ out.ok /\ out.value = arg

\* a string over the alphabet of names: '.', 'a'-'z', '1'-'5'
InNameAlphabet(v) == \A i \in 1..Len(v) : IsNameChar(v[i])

\* the characters of v that are no '.', in order
NonDots(v) == SelectSeq(v, LAMBDA c : c # 46)

\* C5: every name over the alphabet that construction accepts decodes from
\* its own bytes to a name equal to it under Name's equality; and a name
\* equals every accepted name that differs from it only in '.' characters.
C5_NameRoundTrip ==
    (typ = "Name" /\ InNameAlphabet(arg)) =>
        /\ pc # "failed"
        /\ (pc = "decoded" /\ trail = <<>>) =>
              (out.ok /\ Name_eq(out.value, obj.value))
        /\ pc = "made" =>
              \A other \in NameInputs :
                 (Name_new(other).ok /\ NonDots(other) = NonDots(obj.value))
                    => Name_eq(obj.value, Name_new(other).value)

\* "a.b" was accepted (it equals "ab" there), encoded, and decoded to a name
\* equal to it
C5_Witness ==
    /\ typ = "Name" /\ arg = <<97, 46, 98>> /\ pc = "decoded" /\ trail = <<>>
    /\ Name_eq(arg, <<97, 98>>)
    /\ out.ok /\ Name_eq(out.value, arg)

\* C6: every accepted name that does not end in '.' decodes from its own
\* bytes to the same string, character for character.
C6_NameExactInverse ==
    (/\ typ = "Name" /\ pc = "decoded" /\ trail = <<>>
     /\ InNameAlphabet(arg)
     /\ (arg = <<>> \/ arg[Len(arg)] # 46))
        => (out.ok /\ out.value = arg)

\* ".a" was accepted and encoded, and its bytes decoded to "a"
C6_Witness ==
    /\ typ = "Name" /\ arg = <<46, 97>> /\ pc = "decoded" /\ trail = <<>>
    /\ out.ok /\ out.value = <<97>>

\* C7: a Symbol "<p>,<CODE>" with p in 0..16 and CODE of 1..7 uppercase
\* letters is accepted; its bytes are p, the letters of CODE and zero bytes
\* up to 8 bytes; decoding those 8 bytes gives the same string.
C7_SymbolLayout ==
    \A p \in 0..16 : \A code \in CodeInputs :
        (typ = "Symbol" /\ arg = PyStr(PyInt(p)) \o <<44>> \o code /\ pc # "start")
            => /\ pc \notin {"rejected", "failed"}
               /\ pc \in {"encoded", "decoded"} =>
                     /\ Len(Encoded) = 8
                     /\ Encoded = <<p>> \o code \o Rep(0, 7 - Len(code))
               /\ (pc = "decoded" /\ trail = <<>>) => (out.ok /\ out.value = arg)

\* "4,WAX" was encoded to 04 57 41 58 00 00 00 00 and decoded to itself
C7_Witness ==
    /\ typ = "Symbol" /\ arg = <<52, 44, 87, 65, 88>> /\ pc = "decoded"
    /\ trail = <<>>
    /\ buf = <<4, 87, 65, 88, 0, 0, 0, 0>>
    /\ out.ok /\ out.value = arg

\* the steps at which bytes(value) was called
Tried == {"encoded", "failed", "decoded"}

\* what AbiSchema accepts: the five required keys, no key outside the schema
SchemaAccepts(json_data) ==
    /\ AbiSchemaRequired \subseteq DOMAIN json_data
    /\ DOMAIN json_data \subseteq AbiSchemaKeys

\* a section of the payload: the single byte 00 for an empty list, else the
\* count and the entries (their bytes given by Entry)
Section(list, Entry(_)) ==
    IF list = <<>> THEN <<0>>
    ELSE Varuint32_bytes(PyInt(Len(list)))
           \o Concat([i \in 1..Len(list) |-> Entry(list[i]).value])

\* the payload of an ABI mapping: version, the four sections in order, six
\* placeholder bytes
Payload(json_data) ==
    String_bytes(json_data.version)
        \o Section(json_data.types, AbiType_bytes)
        \o Section(json_data.structs, AbiStruct_bytes)
        \o Section(json_data.actions, AbiAction_bytes)
        \o Section(json_data.tables, AbiTable_bytes)
        \o <<0, 0, 0, 0, 0, 0>>

\* C8: the payload Abi encoding builds for a mapping the schema accepts is
\* String(version), types, structs, actions, tables in this order and six
\* 00 bytes, an empty section being the single byte 00; encoding the mapping
\* again gives the same bytes; a mapping with a key outside the schema is
\* rejected.
C8_AbiSections ==
    (typ = "Abi" /\ pc \in Tried) =>
        /\ SchemaAccepts(arg) =>
              /\ pc # "failed"
              /\ hexcode.ok
              /\ hex_to_bin(hexcode.value) = Payload(arg)
              /\ Encode_(typ, obj.value) = Ok(Encoded)
              /\ Hexcode_(typ, obj.value) = hexcode
        /\ ~(DOMAIN arg \subseteq AbiSchemaKeys) => pc = "failed"

\* "eosio::abi/1.1" with empty types and tables, one struct and one action
\* was encoded: 00 stands for types and for tables
C8_Witness ==
    /\ typ = "Abi" /\ pc = "encoded" /\ trail = <<>>
    /\ SchemaAccepts(arg)
    /\ arg.types = <<>> /\ arg.tables = <<>>
    /\ arg.structs # <<>> /\ arg.actions # <<>>
    /\ buf = <<47, 14, 101, 111, 115, 105, 111, 58, 58, 97, 98, 105, 47, 49,
               46, 49, 0, 1, 1, 115, 0, 1, 1, 97, 4, 110, 97, 109, 101, 1, 0,
               0, 0, 0, 0, 0, 50, 50, 1, 115, 0, 0, 0, 0, 0, 0, 0, 0>>

\* the mapping with every omitted section present as an empty list
WithEmptySections(json_data) ==
    [k \in DOMAIN json_data \cup AbiSchemaRequired |->
        IF k \in DOMAIN json_data THEN json_data[k] ELSE <<>>]

\* C9 as stated: a mapping with version that omits any of types, structs,
\* actions, tables is encoded, to the bytes of the mapping with the omitted
\* sections present as empty lists.
C9_SectionsOptional ==
    (/\ typ = "Abi" /\ pc \in Tried
     /\ "version" \in DOMAIN arg /\ DOMAIN arg \subseteq AbiSchemaKeys)
        => /\ pc # "failed"
           /\ Encoded = Abi_bytes(WithEmptySections(arg)).value

\* C9, amended: a mapping within the schema is encoded if and only if it has
\* version and all of types, structs, actions, tables; with the four
\* sections present as empty lists its payload is String(version) and ten
\* 00 bytes.
C9_SectionsRequired ==
    (typ = "Abi" /\ pc \in Tried /\ DOMAIN arg \subseteq AbiSchemaKeys) =>
        /\ pc = "failed" <=> ~(AbiSchemaRequired \subseteq DOMAIN arg)
        /\ (/\ pc # "failed"
            /\ \A k \in AbiSchemaRequired \ {"version"} : arg[k] = <<>>)
              => hex_to_bin(hexcode.value)
                   = String_bytes(arg.version) \o Rep(0, 10)

\* the mapping with version, structs, actions and tables but no types was
\* refused by Abi encoding
C9_Witness ==
    /\ typ = "Abi" /\ pc = "failed"
    /\ DOMAIN arg = AbiSchemaRequired \ {"types"}

\* C10 as stated: the bytes of a Wasm of n bytes, and of an Abi with a
\* payload of n bytes, are the Varuint32 count 2n and 2n element bytes.
C10_PayloadDoubled ==
    (typ \in {"Wasm", "Abi"} /\ pc = "encoded" /\ trail = <<>>) =>
        /\ hexcode.ok
        /\ Len(buf) = Len(Varuint32_bytes(PyInt(Len(hexcode.value))))
                        + Len(hexcode.value)
        /\ SubSeq(buf, 1, Len(Varuint32_bytes(PyInt(Len(hexcode.value)))))
              = Varuint32_bytes(PyInt(Len(hexcode.value)))

\* C10, amended: the bytes of a Wasm of n bytes b are the Varuint32 count n
\* and the n bytes of b, one element per pair of hex digits of the lowercase
\* hex text of b; the bytes of an Abi are the count and the bytes of its
\* payload in the same way.
C10_PayloadWrapped ==
    (typ \in {"Wasm", "Abi"} /\ pc \in {"encoded", "decoded"}) =>
        /\ hexcode.ok
        /\ Len(hexcode.value) % 2 = 0
        /\ \A i \in 1..Len(hexcode.value) :
              hexcode.value[i] \in 48..57 \cup 97..102
        /\ Encoded = Varuint32_bytes(PyInt(Len(hexcode.value) \div 2))
                       \o hex_to_bin(hexcode.value)
        /\ typ = "Wasm" =>
              /\ hex_to_bin(hexcode.value) = arg
              /\ Encoded = Varuint32_bytes(PyInt(Len(arg))) \o arg
        /\ (typ = "Abi" /\ SchemaAccepts(arg)) =>
              Encoded = Varuint32_bytes(PyInt(Len(Payload(arg)))) \o Payload(arg)

\* the Wasm of 00 01 AB FF has the hex text "0001abff" and the bytes
\* 04 00 01 AB FF
C10_Witness ==
    /\ typ = "Wasm" /\ arg = <<0, 1, 171, 255>> /\ pc = "encoded" /\ trail = <<>>
    /\ hexcode.value = <<48, 48, 48, 49, 97, 98, 102, 102>>
    /\ buf = <<4, 0, 1, 171, 255>>

\* "1844674407370955.00000 WAX": 1844674407370955 is below 2^64, its digits
\* with the five fractional ones are not
WideWax ==
    <<49, 56, 52, 52, 54, 55, 52, 52, 48, 55, 51, 55, 48, 57, 53, 53,
      46, 48, 48, 48, 48, 48, 32, 87, 65, 88>>

\* an amount written in digits with at most one decimal point, one space and
\* the code
PlainAmount(v) ==
    /\ Len(Split(v, 32)) = 2
    /\ \A i \in 1..Len(Split(v, 32)[1]) :
          IsDigit(Split(v, 32)[1][i]) \/ Split(v, 32)[1][i] = 46
    /\ Len(Split(Split(v, 32)[1], 46)) <= 2

\* C11: bytes(asset) succeeds for every string (the amount in plain digits)
\* that Asset construction accepts: what cannot be encoded is rejected at
\* construction.
C11_AssetEncodeTotal ==
    (typ = "Asset" /\ PlainAmount(arg)) => pc # "failed"

\* "1844674407370955.00000 WAX" was accepted by the constructor and its
\* bytes() raised
C11_Witness ==
    /\ typ = "Asset" /\ arg = WideWax
    /\ obj.ok /\ pc = "failed"


\* a varuint that ends before its last byte: every byte of the buffer, which
\* has fewer than 9 of them, has the continuation bit set
VaruintCut(bytes_) ==
    /\ Len(bytes_) < 9
    /\ \A i \in 1..Len(bytes_) : bytes_[i] >= 128

\* a string that ends before its last byte: the length prefix is whole and
\* announces more bytes than follow it
StringCut(bytes_) ==
    /\ ~VaruintCut(bytes_)
    /\ Varuint32_from_bytes(bytes_).ok
    /\ PyLess(PyInt(Len(bytes_) - Varuint32_from_bytes_read(bytes_, 0)),
              Varuint32_from_bytes(bytes_).value)

\* C12: from_bytes raises on a truncated buffer: Varuint32.from_bytes on an
\* empty buffer or one whose last byte has the continuation bit set,
\* String.from_bytes on a buffer with fewer bytes than its prefix announces.
C12_TruncatedRaises ==
    (/\ pc = "read"
     /\ \/ typ = "Varuint32" /\ VaruintCut(buf)
        \/ typ = "String" /\ StringCut(buf))
        => ~out.ok

\* String.from_bytes of 02 61, two bytes announced and one present, returned
\* the String "a"
C12_Witness ==
    /\ pc = "read" /\ typ = "String" /\ buf = <<2, 97>>
    /\ out.ok /\ out.value = <<97>>

\* the bytes of the buffer that belong to the value: the varuint up to and
\* including its first byte with the high bit clear and, for a String, the
\* announced number of bytes after it
Consumed ==
    IF typ = "String"
    THEN Varuint32_from_bytes_read(buf, 0) + Small(Varuint32_from_bytes(buf).value)
    ELSE Varuint32_from_bytes_read(buf, 0)

\* C13: len() of a value that Varuint32.from_bytes or String.from_bytes decoded
\* from a whole buffer, minimally encoded or not, is the number of bytes the
\* decoder consumed.
C13_LenIsConsumed ==
    (/\ pc = "read" /\ out.ok
     /\ ~VaruintCut(buf)
     /\ typ = "String" => ~StringCut(buf))
        => EosioType_len(typ, out.value) = Ok(Consumed)

\* 80 00 decoded to the Varuint32 0, two bytes read, and its len() is 1
C13_Witness ==
    /\ pc = "read" /\ typ = "Varuint32" /\ buf = <<128, 0>>
    /\ out = Ok(PyInt(0))
    /\ Consumed = 2
    /\ EosioType_len(typ, out.value) = Ok(1)

\* the concrete value types of the module
ValueTypes ==
    {"UnixTimestamp", "Bool", "String", "Asset", "Symbol", "Bytes", "Array",
     "Name", "Int8", "Uint8", "Uint16", "Uint32", "Uint64", "Varuint32", "Abi",
     "Wasm"}

\* the value types whose class name is v in some casing
Named(v) ==
    {ModuleClasses[i].class_ : i \in
        {j \in 1..Len(ModuleClasses) :
            /\ ModuleClasses[j].class_ \in ValueTypes
            /\ ToLower(ModuleClasses[j].name) = ToLower(v)}}

\* from_string has returned the class of a value type's name and raised on
\* any other name
Resolved ==
    pc = "resolved" =>
        IF Named(arg) = {} THEN ~out.ok
        ELSE out.ok /\ out.value \in Named(arg)

\* C14: from_string resolves the class name of every concrete value type, Abi
\* and Wasm among them, in any casing to that class and raises on every other
\* name, and the registry never changes once it is built.
C14_RegistryCoverage ==
    []Resolved /\ [][all_types' = all_types]_vars

\* from_string("Abi") raised: the registry has no key "abi"
C14_Witness ==
    /\ pc = "resolved" /\ arg = <<65, 98, 105>>
    /\ ~out.ok
    /\ <<97, 98, 105>> \notin DOMAIN all_types
=============================================================================
